---- MODULE Spec2Model ----
(***************************************************************************)
(* Memex: the semantic linking core.  The Convex tables canvasNodes,       *)
(* canvasEdges and messages, the embedding actions (embedCanvasNode,       *)
(* findRelated), the canvas handlers of MemexCanvas.tsx that call them,    *)
(* and the wiki-link backlinks panel.                                      *)
(*                                                                         *)
(* The specifications share the variables:                                 *)
(*   Spec        findRelated from the search box, over a populated database*)
(*   SpecCanvas  the canvas graph: connect, delete, find-related links     *)
(*   SpecEmbed   node creation, content edits and the embedding refresh    *)
(*   SpecNotes   the wiki-link backlinks panel                             *)
(***************************************************************************)
EXTENDS Integers, Sequences, FiniteSets, TLC

\* ------------------------------------------------------------------ bounds
\* canvas nodes present in the populated database of Spec
PopNodes == 3
\* edges that may be inserted in one behaviour (edge ids are never reused)
MaxEdges == 2
\* nodes that may be created in one behaviour of SpecEmbed
MaxNodes == 1
\* embedCanvasNode invocations in one behaviour of SpecEmbed
MaxEmbedCalls == 3

\* notes present in the populated database of SpecNotes
PopNotes == 3
\* message ids that may be given out in one behaviour of SpecMessages
MaxMessages == 4
\* messages, and canvas nodes, in the larger database of SpecSearch
PopMany == 6
\* notes in the longest title list of SpecSuggest
MaxTitles == 11
\* clicks on wiki-links in one behaviour of SpecClick
MaxClicks == 2
\* SpecEditor: the timers one behaviour starts, the clock's last instant and
\* the time between two instants (ms)
MaxTimers == 3
MaxTime == 1500
TickStep == 250
\* imports in one behaviour of SpecImport
MaxImports == 2
\* embedding calls in one behaviour of SpecScoped
MaxScopedCalls == 2
\* turns in one behaviour of SpecChat
MaxTurns == 2

\* ------------------------------------------------------------ value domains
\* identity.subject of the authenticated callers
Users == {"A", "B"}
\* conversations; conversation.userId (read at src/convex/messages.ts:37)
Conversations == {"KA", "KB"}
ConvUser(k) == IF k = "KA" THEN "A" ELSE "B"

\* texts that are stored as content or sent as a query
Contents == {"c1", "c2", "c3"}
\* the placeholder a double click stores ("New note...")
NewNoteContent == "c1"
\* texts typed into a node of the canvas
EditContents == {"c1", "c2"}

\* a missing optional field (embedding, label)
NoEmbedding == "none"
NoLabel == <<>>
Vectors == {"v1", "v2", "v3"}

\* The Embedding Provider: a deterministic text -> vector function.
Embed(c) ==
    CASE c = "c1" -> "v1"
      [] c = "c2" -> "v2"
      [] OTHER    -> "v3"

\* The Vector Index's similarity _score, in thousandths (0.874 is 874).
Sim(q, v) ==
    CASE q = v -> 1000
      [] {q, v} = {"v1", "v2"} -> 876
      [] {q, v} = {"v2", "v3"} -> 874
      [] OTHER -> 125

\* ---------------------------------------------------------------- variables
VARIABLES
    canvasNodes,   \* table canvasNodes: id -> [content, embedding, owner]
    canvasEdges,   \* table canvasEdges: id -> [source, target, label]
    nextNodeId,    \* ids are fresh: the next canvasNodes id
    nextEdgeId,    \* the next canvasEdges id
    messages,      \* table messages: id -> [conversationId, content, embedding]
    embedCalls,    \* the embedCanvasNode invocations, in request order
    fr,            \* the findRelated call in flight and its caller's loop
    last,          \* the last deleteNode or embedding write, and how it ended
    panel,         \* the backlinks panel of the open note
    notes,         \* the notes the notes view reads: id -> [title, links, owner]
    nextMessageId, \* the next messages id
    menu,          \* the wiki-link suggestion menu of the editor
    nav,           \* the notes view: the selected note, the link clicks in flight
    editor,        \* useNoteEditor: the content, the save timer, the saves made
    importModal,   \* ImportModal: its state and the import in flight
    chat           \* ChatInterface: the conversation shown and its turns

vars == <<canvasNodes, canvasEdges, nextNodeId, nextEdgeId, messages,
          embedCalls, fr, last, panel, notes,
                   nextMessageId, menu, nav, editor, importModal, chat>>

\* ------------------------------------------------------------------ helpers
Max(a, b) == IF a >= b THEN a ELSE b
Min(a, b) == IF a <= b THEN a ELSE b

\* a filter that would collect the survivors last-first
RECURSIVE FilterBooleanReversed(_)
FilterBooleanReversed(s) ==
    IF s = <<>> THEN <<>>
    ELSE IF Head(s).id = 0 THEN FilterBooleanReversed(Tail(s))
    ELSE FilterBooleanReversed(Tail(s)) \o <<Head(s)>>

\* Array.prototype.filter(Boolean): the nulls (id 0) dropped, the order kept
RECURSIVE FilterBoolean(_)
FilterBoolean(s) ==
    IF s = <<>> THEN <<>>
    ELSE IF Head(s).id = 0 THEN FilterBoolean(Tail(s))
    ELSE <<Head(s)>> \o FilterBoolean(Tail(s))

\* the elements of a set of ids as a sequence in increasing id order
\* (an index range read returns documents in _creationTime order)
RECURSIVE Collect(_)
Collect(S) ==
    IF S = {} THEN <<>>
    ELSE LET m == CHOOSE x \in S : \A y \in S : x <= y
         IN <<m>> \o Collect(S \ {m})

Range(s) == {s[i] : i \in 1..Len(s)}

\* text is a sequence of characters; the empty string
Empty == <<>>

\* no suggestion menu is shown
ClosedMenu == [open |-> FALSE, titles |-> <<>>, query |-> Empty,
               items |-> <<>>, selectedIndex |-> 0, command |-> <<>>,
               event |-> "none"]

\* no note is selected and no link has been clicked
NoNav == [selected |-> 0, clicks |-> <<>>]

\* a mounted editor nobody has typed in: no timer is set, nothing was saved
NoEditor == [mounted |-> TRUE, html |-> "", saveTimeoutRef |-> 0,
             timers |-> {}, nextTimer |-> 1, now |-> 0, lastUpdate |-> 0,
             saves |-> <<>>]

\* the import modal, open, before any import
ClosedModal == [isOpen |-> TRUE, isLoading |-> FALSE, error |-> "",
                pc |-> "idle", user |-> "A", content |-> "", nodeId |-> 0,
                call |-> 0, created |-> {}, succeeded |-> {}]

\* a chat with no turn yet
NoChat == [conversationId |-> "KA", user |-> "A", status |-> "ready",
           turns |-> <<>>]

\* no note is open
ClosedPanel == [noteTitle |-> "", currentNoteId |-> 0, backlinks |-> <<>>]

NoCall == [op |-> "none", id |-> 0, ok |-> TRUE, prev |-> NoEmbedding,
           embedding |-> NoEmbedding, error |-> "", value |-> <<>>]

\* ------------------------------------------------- the populated database
\* Spec and SpecCanvas start from a database that earlier createNode, send
\* and embedding calls filled: PopNodes canvas nodes (the last one created by
\* user B, the others by A; odd ids hold "c1", even ids "c2") and messages of
\* both users.  A stored embedding is the one computed from the content.
NodeCreator(id) == IF id = PopNodes THEN "B" ELSE "A"
NodeContent(id) == IF id % 2 = 1 THEN "c1" ELSE "c2"

PopulatedNodes ==
    { f \in [1..PopNodes -> [content : {"c1", "c2"},
                             embedding : Vectors \cup {NoEmbedding},
                             owner : Users]] :
        \A id \in 1..PopNodes :
            /\ f[id].owner = NodeCreator(id)
            /\ f[id].content = NodeContent(id)
            /\ f[id].embedding \in {NoEmbedding, Embed(f[id].content)} }

EmbeddedNodes ==
    [id \in 1..PopNodes |-> [content |-> NodeContent(id),
                             embedding |-> Embed(NodeContent(id)),
                             owner |-> NodeCreator(id)]]

PopulatedMessages ==
    <<[conversationId |-> "KA", content |-> "c1", embedding |-> "v1"],
      [conversationId |-> "KB", content |-> "c2", embedding |-> "v2"],
      [conversationId |-> "KA", content |-> "c3", embedding |-> "v3"]>>

\* ------------------------------------------------------------ convex/canvas
\* the null a query returns for a missing or refused document
NullDoc == [id |-> 0]

\* canvas.getNodeById: ctx.db.get(args.id), whoever calls
GetNodeById(caller, id) ==
    IF id \in DOMAIN canvasNodes
    THEN [id |-> id, content |-> canvasNodes[id].content,
          owner |-> canvasNodes[id].owner]
    ELSE NullDoc

\* the negation of `!conversation || conversation.userId !== identity.subject`
OwnsConversation(caller, k) == k \in Conversations /\ ConvUser(k) = caller

\* messages.getById: null unless the message's conversation is the caller's
GetById(caller, id) ==
    IF id \notin DOMAIN messages THEN NullDoc
    ELSE IF ~OwnsConversation(caller, messages[id].conversationId) THEN NullDoc
    ELSE [id |-> id, content |-> messages[id].content,
          conversationId |-> messages[id].conversationId]

\* canvas.createEdge: a blind insert; neither endpoint is looked up
CreateEdge(source, target, label) ==
    /\ canvasEdges' = [e \in DOMAIN canvasEdges \cup {nextEdgeId} |->
                         IF e = nextEdgeId
                         THEN [source |-> source, target |-> target,
                               label |-> label]
                         ELSE canvasEdges[e]]
    /\ nextEdgeId' = nextEdgeId + 1

\* canvas.deleteNode: the two index reads
SourceEdges(id) == {e \in DOMAIN canvasEdges : canvasEdges[e].source = id}
TargetEdges(id) == {e \in DOMAIN canvasEdges : canvasEdges[e].target = id}

\* [...sourceEdges, ...targetEdges]
ConnectedEdges(id) == Collect(SourceEdges(id)) \o Collect(TargetEdges(id))

\* ctx.db.delete throws on a document that no longer exists: the loop throws
\* when an id comes twice in the list, the last delete when the node is gone.
\* A mutation that throws commits nothing.
DeleteNodeThrows(id) ==
    \/ \E i, j \in 1..Len(ConnectedEdges(id)) :
          i < j /\ ConnectedEdges(id)[i] = ConnectedEdges(id)[j]
    \/ id \notin DOMAIN canvasNodes

DeleteNodeCommit(id) ==
    /\ canvasEdges' = [e \in DOMAIN canvasEdges \ Range(ConnectedEdges(id)) |->
                         canvasEdges[e]]
    /\ canvasNodes' = [n \in DOMAIN canvasNodes \ {id} |-> canvasNodes[n]]

\* the onDelete callback of a node the canvas shows
DeleteNode(id) ==
    /\ id \in DOMAIN canvasNodes
    /\ IF DeleteNodeThrows(id)
       THEN /\ UNCHANGED <<canvasNodes, canvasEdges>>
            /\ last' = [NoCall EXCEPT !.op = "deleteNode", !.id = id,
                                      !.ok = FALSE]
       ELSE /\ DeleteNodeCommit(id)
            /\ last' = [NoCall EXCEPT !.op = "deleteNode", !.id = id]
    /\ UNCHANGED <<nextNodeId, nextEdgeId, messages, embedCalls, fr, panel, notes,
                   nextMessageId, menu, nav, editor, importModal, chat>>

\* canvas.deleteEdge, from handleEdgesChange
DeleteEdge(e) ==
    /\ e \in DOMAIN canvasEdges
    /\ canvasEdges' = [x \in DOMAIN canvasEdges \ {e} |-> canvasEdges[x]]
    /\ UNCHANGED <<canvasNodes, nextNodeId, nextEdgeId, messages, embedCalls,
                   fr, last, panel, notes,
                   nextMessageId, menu, nav, editor, importModal, chat>>

\* MemexCanvas.onConnect: createEdge({source, target}) with no label
OnConnect(source, target) ==
    /\ nextEdgeId <= MaxEdges
    /\ source \in DOMAIN canvasNodes
    /\ target \in DOMAIN canvasNodes
    /\ CreateEdge(source, target, NoLabel)
    /\ UNCHANGED <<canvasNodes, nextNodeId, messages, embedCalls, fr, last,
                   panel, notes,
                   nextMessageId, menu, nav, editor, importModal, chat>>

\* a map that would return the source nodes without their edge's label
RECURSIVE SourceNodesUnlabelled(_)
SourceNodesUnlabelled(es) ==
    IF es = <<>> THEN <<>>
    ELSE LET edge == canvasEdges[Head(es)]
             node == IF edge.source \in DOMAIN canvasNodes
                     THEN [id |-> edge.source, edgeLabel |-> NoLabel]
                     ELSE NullDoc
         IN <<node>> \o SourceNodesUnlabelled(Tail(es))

\* canvas.getBacklinks: the source nodes of the incoming edges that still
\* exist, each with its edge's label, in index order
RECURSIVE SourceNodes(_)
SourceNodes(es) ==
    IF es = <<>> THEN <<>>
    ELSE LET edge == canvasEdges[Head(es)]
             node == IF edge.source \in DOMAIN canvasNodes
                     THEN [id |-> edge.source, edgeLabel |-> edge.label]
                     ELSE NullDoc
         IN <<node>> \o SourceNodes(Tail(es))

\* a getBacklinks that would read the source off the edge, with no ctx.db.get
GetBacklinksFromEdges(nodeId) ==
    LET es == Collect(TargetEdges(nodeId))
    IN [i \in 1..Len(es) |-> [id |-> canvasEdges[es[i]].source,
                              edgeLabel |-> canvasEdges[es[i]].label]]

GetBacklinks(nodeId) ==
    FilterBoolean(SourceNodes(Collect(TargetEdges(nodeId))))

\* -------------------------------------------------------- convex/embeddings
\* args.limit ?? 5; an omitted limit is passed as 0
DefaultLimit == 5

\* a search that would ask the index for twice the limit
EffectiveLimitDoubled(limit) ==
    IF limit = 0 THEN 2 * DefaultLimit ELSE 2 * limit

EffectiveLimit(limit) == IF limit = 0 THEN DefaultLimit ELSE limit

\* ctx.vectorSearch(table, "by_embedding", {vector, limit}): the documents
\* that store an embedding, the `limit` nearest ones, best first.  The order
\* among equal scores is the index's choice.
\* an index that would also hold the rows that store no embedding
IndexedAll(table) == DOMAIN table

Indexed(table) == {id \in DOMAIN table : table[id].embedding # NoEmbedding}

IsTopK(s, table, vector, k) ==
    /\ Len(s) = Min(k, Cardinality(Indexed(table)))
    /\ \A i, j \in 1..Len(s) : i < j =>
          /\ s[i] # s[j]
          /\ Sim(vector, table[s[i]].embedding) >= Sim(vector, table[s[j]].embedding)
    /\ \A e \in Indexed(table) \ Range(s) : \A i \in 1..Len(s) :
          Sim(vector, table[s[i]].embedding) >= Sim(vector, table[e].embedding)

VectorSearch(table, vector, limit) ==
    LET k == EffectiveLimit(limit)
        n == Min(k, Cardinality(Indexed(table)))
    IN { [i \in 1..n |-> [id |-> s[i],
                          score |-> Sim(vector, table[s[i]].embedding)]] :
           s \in { t \in [1..n -> Indexed(table)] : IsTopK(t, table, vector, k) } }

\* one element of the map over the hits: the looked-up document with the
\* hit's _score, or null
WithScore(doc, hit) ==
    IF doc.id = 0 THEN NullDoc
    ELSE [id |-> doc.id, content |-> doc.content, owner |-> doc.owner,
          score |-> hit.score]

MessageResult(caller, hit) ==
    LET msg == GetById(caller, hit.id)
    IN IF msg.id = 0 THEN NullDoc
       ELSE WithScore([id |-> msg.id, content |-> msg.content,
                       owner |-> ConvUser(msg.conversationId)], hit)

NodeResult(caller, hit) == WithScore(GetNodeById(caller, hit.id), hit)

\* fetches counts the requests sent to the Embedding Provider, error is the
\* message of the Error the call threw, made lists the createEdge calls of
\* the caller's loop that succeeded
Idle == [pc |-> "idle", caller |-> "A", source |-> 0, query |-> "c1",
         limit |-> 0, vector |-> NoEmbedding, messageResults |-> <<>>,
         nodeResults |-> <<>>, messages |-> <<>>, nodes |-> <<>>, i |-> 0,
         fetches |-> 0, error |-> "", made |-> <<>>]

\* data.error?.message of a refused request ("" when the body has none)
ProviderErrors == {"", "Rate limit reached"}

frFrame == <<canvasNodes, canvasEdges, nextNodeId, nextEdgeId, messages,
             embedCalls, last, panel, notes,
                   nextMessageId, menu, nav, editor, importModal, chat>>

\* SemanticSearch: findRelated({query, limit}) from the search box
Search(caller, query, limit) ==
    /\ fr.pc = "idle"
    /\ fr' = [Idle EXCEPT !.pc = "fetch", !.caller = caller, !.query = query,
                          !.limit = limit]
    /\ UNCHANGED frFrame

\* MemexCanvas.handleFindRelated(nodeId, content) of a node the canvas shows:
\* findRelated({query: content, limit: 3})
HandleFindRelated(caller, nodeId) ==
    /\ fr.pc = "idle"
    /\ nodeId \in DOMAIN canvasNodes
    /\ fr' = [Idle EXCEPT !.pc = "fetch", !.caller = caller, !.source = nodeId,
                          !.query = canvasNodes[nodeId].content, !.limit = 3]
    /\ UNCHANGED frFrame

\* a findRelated that would keep the embedded query as a searchable row
FindRelatedEmbeddedStoresQuery ==
    /\ fr.pc = "fetch"
    /\ fr' = [fr EXCEPT !.pc = "searchMessages", !.vector = Embed(fr.query),
                        !.fetches = @ + 1]
    /\ messages' = Append(messages, [conversationId |-> "KA",
                                     content |-> fr.query,
                                     embedding |-> Embed(fr.query)])
    /\ UNCHANGED <<canvasNodes, canvasEdges, nextNodeId, nextEdgeId,
                   embedCalls, last, panel, notes,
                   nextMessageId, menu, nav, editor, importModal, chat>>

\* the one fetch of the Embedding Provider answers
FindRelatedEmbedded ==
    /\ fr.pc = "fetch"
    /\ fr' = [fr EXCEPT !.pc = "searchMessages", !.vector = Embed(fr.query),
                        !.fetches = @ + 1]
    /\ UNCHANGED frFrame

\* a findRelated that would send the request once more before giving up
FindRelatedFailedRetries ==
    /\ fr.pc = "fetch"
    /\ \E m \in ProviderErrors :
          fr' = IF fr.fetches = 0
                THEN [fr EXCEPT !.fetches = @ + 1]
                ELSE [fr EXCEPT !.pc = "failed", !.fetches = @ + 1,
                        !.error = IF m = "" THEN "Failed to generate embedding"
                                  ELSE m]
    /\ UNCHANGED frFrame

\* !response.ok: findRelated throws
\* new Error(data.error?.message ?? "Failed to generate embedding");
\* handleFindRelated's catch logs it
FindRelatedFailed ==
    /\ fr.pc = "fetch"
    /\ \E m \in ProviderErrors :
          fr' = [fr EXCEPT !.pc = "failed", !.fetches = @ + 1,
                          !.error = IF m = "" THEN "Failed to generate embedding"
                                    ELSE m]
    /\ UNCHANGED frFrame

SearchMessages ==
    /\ fr.pc = "searchMessages"
    /\ \E hits \in VectorSearch(messages, fr.vector, fr.limit) :
          fr' = [fr EXCEPT !.pc = "searchNodes", !.messageResults = hits]
    /\ UNCHANGED frFrame

SearchNodes ==
    /\ fr.pc = "searchNodes"
    /\ \E hits \in VectorSearch(canvasNodes, fr.vector, fr.limit) :
          fr' = [fr EXCEPT !.pc = "lookupMessages", !.nodeResults = hits,
                           !.i = 1]
    /\ UNCHANGED frFrame

\* the runQuery calls of the two maps, one query per step, then the return
\* of {messages.filter(Boolean), nodes.filter(Boolean)}
LookupMessage ==
    /\ fr.pc = "lookupMessages"
    /\ IF fr.i <= Len(fr.messageResults)
       THEN fr' = [fr EXCEPT
                     !.messages = Append(@, MessageResult(fr.caller,
                                                fr.messageResults[fr.i])),
                     !.i = @ + 1]
       ELSE fr' = [fr EXCEPT !.pc = "lookupNodes", !.i = 1]
    /\ UNCHANGED frFrame

LookupNode ==
    /\ fr.pc = "lookupNodes"
    /\ IF fr.i <= Len(fr.nodeResults)
       THEN fr' = [fr EXCEPT
                     !.nodes = Append(@, NodeResult(fr.caller,
                                                    fr.nodeResults[fr.i])),
                     !.i = @ + 1]
       ELSE fr' = [fr EXCEPT !.pc = "done", !.i = 1,
                             !.messages = FilterBoolean(@),
                             !.nodes = FilterBoolean(@)]
    /\ UNCHANGED frFrame

\* a label that would cut the fraction off: Math.floor
ScoreLabelFloor(score) == <<score \div 10>>

\* `${Math.round(node.score * 100)}%`
ScoreLabel(score) == <<(score + 5) \div 10>>

\* a guard that would only test `node`
IsRelatedTargetUnchecked(node, nodeId) == node.id # 0

\* the guard of handleFindRelated's loop body: node && node._id !== nodeId
IsRelatedTarget(node, nodeId) == node.id # 0 /\ node.id # nodeId

\* one iteration of `for (const node of related.nodes)`
MaterializeStep ==
    /\ fr.pc = "done"
    /\ fr.source # 0
    /\ fr.i <= Len(fr.nodes)
    /\ IF IsRelatedTarget(fr.nodes[fr.i], fr.source)
       THEN /\ nextEdgeId <= MaxEdges
            /\ CreateEdge(fr.source, fr.nodes[fr.i].id,
                          ScoreLabel(fr.nodes[fr.i].score))
       ELSE UNCHANGED <<canvasEdges, nextEdgeId>>
    /\ fr' = [fr EXCEPT
                 !.i = @ + 1,
                 !.made = IF IsRelatedTarget(fr.nodes[fr.i], fr.source)
                          THEN Append(@, [edge |-> nextEdgeId,
                                          source |-> fr.source,
                                          target |-> fr.nodes[fr.i].id,
                                          label |-> ScoreLabel(fr.nodes[fr.i].score)])
                          ELSE @]
    /\ UNCHANGED <<canvasNodes, nextNodeId, messages, embedCalls, last, panel, notes,
                   nextMessageId, menu, nav, editor, importModal, chat>>

\* a failure that would undo the edges the run has made so far
MaterializeFailedRollsBack ==
    /\ fr.pc = "done"
    /\ fr.source # 0
    /\ fr.i <= Len(fr.nodes)
    /\ IsRelatedTarget(fr.nodes[fr.i], fr.source)
    /\ fr' = [fr EXCEPT !.pc = "failed", !.made = <<>>]
    /\ canvasEdges' = [e \in DOMAIN canvasEdges
                             \ {fr.made[k].edge : k \in 1..Len(fr.made)} |->
                         canvasEdges[e]]
    /\ UNCHANGED <<canvasNodes, nextNodeId, nextEdgeId, messages, embedCalls,
                   last, panel, notes, nextMessageId, menu, nav, editor, importModal, chat>>

\* createEdge rejects (the request fails): the catch logs it, the loop ends
MaterializeFailed ==
    /\ fr.pc = "done"
    /\ fr.source # 0
    /\ fr.i <= Len(fr.nodes)
    /\ IsRelatedTarget(fr.nodes[fr.i], fr.source)
    /\ fr' = [fr EXCEPT !.pc = "failed"]
    /\ UNCHANGED frFrame

\* the caller is done with the call: the loop ran out, the search box showed
\* the result, or the error was logged
Finish ==
    /\ \/ fr.pc = "failed"
       \/ fr.pc = "done" /\ (fr.source = 0 \/ fr.i > Len(fr.nodes))
    /\ fr' = Idle
    /\ UNCHANGED frFrame

\* ---------------------------------------------------------------- Spec
\* findRelated from the search box, over a database whose nodes may go
Init ==
    /\ canvasNodes \in PopulatedNodes
    /\ canvasEdges = <<>>
    /\ nextNodeId = PopNodes + 1
    /\ nextEdgeId = 1
    /\ messages = PopulatedMessages
    /\ embedCalls = <<>>
    /\ fr = Idle
    /\ last = NoCall
    /\ panel = ClosedPanel
    /\ notes = <<>>
    /\ nextMessageId = Len(PopulatedMessages) + 1
    /\ menu = ClosedMenu
    /\ nav = NoNav
    /\ editor = NoEditor
    /\ importModal = ClosedModal
    /\ chat = NoChat

FindRelatedNext ==
    \/ FindRelatedEmbedded
    \/ FindRelatedFailed
    \/ SearchMessages
    \/ SearchNodes
    \/ LookupMessage
    \/ LookupNode
    \/ Finish

Next ==
    \/ \E id \in 1..PopNodes : DeleteNode(id)
    \/ \E u \in Users, q \in Contents, k \in {0, 1, 2} : Search(u, q, k)
    \/ FindRelatedNext

Spec == Init /\ [][Next]_vars

\* ---------------------------------------------------------- SpecSearch
\* findRelated over a database that holds more rows than the default limit:
\* PopMany embedded messages and PopMany embedded nodes, the last of each
\* user B's, the contents in turn "c1", "c2", "c3"
ManyContent(id) ==
    CASE id % 3 = 1 -> "c1"
      [] id % 3 = 2 -> "c2"
      [] OTHER      -> "c3"

ManyNodes ==
    [id \in 1..PopMany |-> [content |-> ManyContent(id),
                            embedding |-> Embed(ManyContent(id)),
                            owner |-> IF id = PopMany THEN "B" ELSE "A"]]

ManyMessages ==
    [id \in 1..PopMany |->
        [conversationId |-> IF id = PopMany THEN "KB" ELSE "KA",
         content |-> ManyContent(id),
         embedding |-> Embed(ManyContent(id))]]

InitSearch ==
    /\ canvasNodes = ManyNodes
    /\ canvasEdges = <<>>
    /\ nextNodeId = PopMany + 1
    /\ nextEdgeId = 1
    /\ messages = ManyMessages
    /\ embedCalls = <<>>
    /\ fr = Idle
    /\ last = NoCall
    /\ panel = ClosedPanel
    /\ notes = <<>>
    /\ nextMessageId = PopMany + 1
    /\ menu = ClosedMenu
    /\ nav = NoNav
    /\ editor = NoEditor
    /\ importModal = ClosedModal
    /\ chat = NoChat

NextSearch ==
    \/ \E u \in Users, q \in Contents, k \in {0, 2} : Search(u, q, k)
    \/ FindRelatedNext

SpecSearch == InitSearch /\ [][NextSearch]_vars

\* ---------------------------------------------------------- SpecCanvas
\* the canvas: connect, delete, and the find-related button of a node
InitCanvas ==
    /\ canvasNodes = EmbeddedNodes
    /\ canvasEdges = <<>>
    /\ nextNodeId = PopNodes + 1
    /\ nextEdgeId = 1
    /\ messages = SubSeq(PopulatedMessages, 1, 1)
    /\ embedCalls = <<>>
    /\ fr = Idle
    /\ last = NoCall
    /\ panel = ClosedPanel
    /\ notes = <<>>
    /\ nextMessageId = 2
    /\ menu = ClosedMenu
    /\ nav = NoNav
    /\ editor = NoEditor
    /\ importModal = ClosedModal
    /\ chat = NoChat

NextCanvas ==
    \/ \E id \in 1..PopNodes : DeleteNode(id)
    \/ \E s, t \in 1..PopNodes : OnConnect(s, t)
    \/ \E u \in Users, id \in 1..PopNodes : HandleFindRelated(u, id)
    \/ FindRelatedNext
    \/ MaterializeStep
    \/ MaterializeFailed

SpecCanvas == InitCanvas /\ [][NextCanvas]_vars

\* ---------------------------------------------------------- SpecEmbed
\* canvas.updateNode({id, content}): ctx.db.patch throws on a missing node
UpdateNodeThrows(id) == id \notin DOMAIN canvasNodes

\* a patch that would keep a vector already stored (write once)
PatchEmbeddingKeepsFirst(table, id, embedding) ==
    IF table[id].embedding = NoEmbedding
    THEN [table EXCEPT ![id].embedding = embedding]
    ELSE table

\* embeddings.updateNodeEmbedding, messages.updateEmbedding:
\* ctx.db.patch(args.id, {embedding: args.embedding})
PatchEmbedding(table, id, embedding) ==
    [table EXCEPT ![id].embedding = embedding]

\* an embedCanvasNode({nodeId, content}) invocation that `caller` has just
\* sent from the call site `from`
NewCall(from, caller, nodeId, content) ==
    [from |-> from, caller |-> caller, nodeId |-> nodeId, content |-> content,
     pc |-> "verify", vector |-> NoEmbedding]

embedFrame == <<canvasEdges, nextEdgeId, messages, fr, panel, notes,
                   nextMessageId, menu, nav, editor, importModal, chat>>

\* MemexCanvas.onDoubleClick: createNode, then embedCanvasNode on the new id
\* (fire and forget)
CreateNode(user) ==
    /\ nextNodeId <= MaxNodes
    /\ Len(embedCalls) < MaxEmbedCalls
    /\ canvasNodes' = [n \in DOMAIN canvasNodes \cup {nextNodeId} |->
                         IF n = nextNodeId
                         THEN [content |-> NewNoteContent,
                               embedding |-> NoEmbedding, owner |-> user]
                         ELSE canvasNodes[n]]
    /\ nextNodeId' = nextNodeId + 1
    /\ embedCalls' = Append(embedCalls, NewCall("onDoubleClick", user,
                                           nextNodeId, NewNoteContent))
    /\ UNCHANGED <<last>>
    /\ UNCHANGED embedFrame

\* MemexCanvas.handleContentChange(nodeId, content): await updateNode, then
\* embedCanvasNode({nodeId, content}).catch(console.error).  When updateNode
\* throws, the handler rejects before the refresh is sent.
HandleContentChange(nodeId, content) ==
    /\ nodeId \in 1..(nextNodeId - 1)
    /\ Len(embedCalls) < MaxEmbedCalls
    /\ IF UpdateNodeThrows(nodeId)
       THEN UNCHANGED <<canvasNodes, embedCalls>>
       ELSE /\ content # canvasNodes[nodeId].content
            /\ canvasNodes' = [canvasNodes EXCEPT ![nodeId].content = content]
            /\ embedCalls' = Append(embedCalls, NewCall("handleContentChange",
                                                "A", nodeId, content))
    /\ UNCHANGED <<nextNodeId, last>>
    /\ UNCHANGED embedFrame

\* embedCanvasNode, first await: getNodeById; a null throws
EmbedVerify(t) ==
    /\ t \in DOMAIN embedCalls
    /\ embedCalls[t].pc = "verify"
    /\ embedCalls' = [embedCalls EXCEPT ![t].pc =
                        IF GetNodeById(embedCalls[t].caller,
                                        embedCalls[t].nodeId).id = 0
                        THEN "notFound" ELSE "fetch"]
    /\ UNCHANGED <<canvasNodes, nextNodeId, last>>
    /\ UNCHANGED embedFrame

\* the provider answers: data.data[0].embedding
EmbedFetched(t) ==
    /\ t \in DOMAIN embedCalls
    /\ embedCalls[t].pc = "fetch"
    /\ embedCalls' = [embedCalls EXCEPT ![t].pc = "store",
                        ![t].vector = Embed(embedCalls[t].content)]
    /\ UNCHANGED <<canvasNodes, nextNodeId, last>>
    /\ UNCHANGED embedFrame

\* a failure path that would also drop the vector it could not refresh
EmbedFetchFailedClears(t) ==
    /\ t \in DOMAIN embedCalls
    /\ embedCalls[t].pc = "fetch"
    /\ embedCalls' = [embedCalls EXCEPT ![t].pc = "providerError"]
    /\ canvasNodes' = [n \in DOMAIN canvasNodes |->
                         IF n = embedCalls[t].nodeId
                         THEN [canvasNodes[n] EXCEPT !.embedding = NoEmbedding]
                         ELSE canvasNodes[n]]
    /\ UNCHANGED <<nextNodeId, last>>
    /\ UNCHANGED embedFrame

\* !response.ok: the action throws, the caller's catch logs it
EmbedFetchFailed(t) ==
    /\ t \in DOMAIN embedCalls
    /\ embedCalls[t].pc = "fetch"
    /\ embedCalls' = [embedCalls EXCEPT ![t].pc = "providerError"]
    /\ UNCHANGED <<canvasNodes, nextNodeId, last>>
    /\ UNCHANGED embedFrame

\* a store that would write the vector under the id whether or not the node
\* is still there (an upsert)
EmbedStoreUpserts(t) ==
    /\ t \in DOMAIN embedCalls
    /\ embedCalls[t].pc = "store"
    /\ LET id == embedCalls[t].nodeId
       IN /\ embedCalls' = [embedCalls EXCEPT ![t].pc = "done"]
          /\ canvasNodes' = [n \in DOMAIN canvasNodes \cup {id} |->
                               IF n = id
                               THEN [content |-> embedCalls[t].content,
                                     embedding |-> embedCalls[t].vector,
                                     owner |-> "A"]
                               ELSE canvasNodes[n]]
    /\ UNCHANGED <<nextNodeId, last>>
    /\ UNCHANGED embedFrame

\* runMutation(updateNodeEmbedding, {id, embedding}); the patch throws on a
\* node that is gone
EmbedStore(t) ==
    /\ t \in DOMAIN embedCalls
    /\ embedCalls[t].pc = "store"
    /\ LET id == embedCalls[t].nodeId
       IN IF id \notin DOMAIN canvasNodes
          THEN /\ embedCalls' = [embedCalls EXCEPT ![t].pc = "patchError"]
               /\ UNCHANGED canvasNodes
          ELSE /\ embedCalls' = [embedCalls EXCEPT ![t].pc = "done"]
               /\ canvasNodes' = PatchEmbedding(canvasNodes, id,
                                                embedCalls[t].vector)
    /\ UNCHANGED <<nextNodeId, last>>
    /\ UNCHANGED embedFrame

\* ---------------------------------------------------------- convex/messages
\* what a call gives its caller (returned value or thrown error) and the
\* table it leaves
Returned(value, table) ==
    [ok |-> TRUE, error |-> "", value |-> value, messages |-> table]
Threw(error) ==
    [ok |-> FALSE, error |-> error, value |-> <<>>, messages |-> messages]

\* the message exists and its conversation is the caller's
OwnsMessage(caller, id) ==
    /\ id \in DOMAIN messages
    /\ OwnsConversation(caller, messages[id].conversationId)

\* messages.getById as its caller sees it: null is the empty value
GetByIdResult(caller, id) ==
    IF GetById(caller, id).id = 0 THEN Returned(<<>>, messages)
    ELSE Returned(<<GetById(caller, id)>>, messages)

\* messages.list({conversationId}): [] unless the conversation is the
\* caller's, else its messages in creation order
ListResult(caller, k) ==
    IF ~OwnsConversation(caller, k) THEN Returned(<<>>, messages)
    ELSE Returned(Collect({id \in DOMAIN messages :
                              messages[id].conversationId = k}), messages)

\* messages.send({conversationId, content}): 'Not found' unless the
\* conversation is the caller's, else the insert; returns the new id
SendResult(caller, k, content) ==
    IF ~OwnsConversation(caller, k) THEN Threw("Not found")
    ELSE Returned(<<nextMessageId>>,
                  [id \in DOMAIN messages \cup {nextMessageId} |->
                     IF id = nextMessageId
                     THEN [conversationId |-> k, content |-> content,
                           embedding |-> NoEmbedding]
                     ELSE messages[id]])

\* messages.updateEmbedding({id, embedding})
UpdateEmbeddingResult(caller, id, embedding) ==
    IF ~OwnsMessage(caller, id) THEN Threw("Not found")
    ELSE Returned(<<>>, PatchEmbedding(messages, id, embedding))

\* a remove that would tell the caller the message is someone else's
RemoveResultDistinguishes(caller, id) ==
    IF id \notin DOMAIN messages THEN Threw("Not found")
    ELSE IF ~OwnsMessage(caller, id) THEN Threw("Unauthorized")
    ELSE Returned(<<>>, [m \in DOMAIN messages \ {id} |-> messages[m]])

\* messages.remove({id})
RemoveResult(caller, id) ==
    IF ~OwnsMessage(caller, id) THEN Threw("Not found")
    ELSE Returned(<<>>, [m \in DOMAIN messages \ {id} |-> messages[m]])

messagesFrame == <<canvasNodes, canvasEdges, nextNodeId, nextEdgeId,
                   embedCalls, fr, panel, notes, menu, nav, editor, importModal, chat>>

\* what `last` keeps of a call and its outcome
Outcome(op, id, r) ==
    [NoCall EXCEPT !.op = op, !.id = id, !.ok = r.ok, !.error = r.error,
                   !.value = r.value]

\* messages.updateEmbedding({id, embedding}) called by `caller`
UpdateEmbedding(caller, id, embedding) ==
    LET r == UpdateEmbeddingResult(caller, id, embedding)
    IN /\ messages' = r.messages
       /\ last' = [Outcome("updateEmbedding", id, r) EXCEPT
                     !.prev = IF r.ok THEN messages[id].embedding
                              ELSE NoEmbedding,
                     !.embedding = embedding]
       /\ UNCHANGED nextMessageId
       /\ UNCHANGED messagesFrame

GetByIdCall(caller, id) ==
    /\ last' = Outcome("getById", id, GetByIdResult(caller, id))
    /\ UNCHANGED <<messages, nextMessageId>>
    /\ UNCHANGED messagesFrame

List(caller, k) ==
    /\ last' = Outcome("list", 0, ListResult(caller, k))
    /\ UNCHANGED <<messages, nextMessageId>>
    /\ UNCHANGED messagesFrame

\* ChatInterface: sendMessageToDb({conversationId, role, content})
Send(caller, k, content) ==
    LET r == SendResult(caller, k, content)
    IN /\ nextMessageId <= MaxMessages
       /\ messages' = r.messages
       /\ nextMessageId' = IF r.ok THEN nextMessageId + 1 ELSE nextMessageId
       /\ last' = Outcome("send", 0, r)
       /\ UNCHANGED messagesFrame

Remove(caller, id) ==
    LET r == RemoveResult(caller, id)
    IN /\ messages' = r.messages
       /\ last' = Outcome("remove", id, r)
       /\ UNCHANGED nextMessageId
       /\ UNCHANGED messagesFrame

InitEmbed ==
    /\ canvasNodes = <<>>
    /\ canvasEdges = <<>>
    /\ nextNodeId = 1
    /\ nextEdgeId = 1
    /\ messages = [id \in {1} |-> [PopulatedMessages[1] EXCEPT
                                     !.embedding = NoEmbedding]]
    /\ embedCalls = <<>>
    /\ fr = Idle
    /\ last = NoCall
    /\ panel = ClosedPanel
    /\ notes = <<>>
    /\ nextMessageId = 2
    /\ menu = ClosedMenu
    /\ nav = NoNav
    /\ editor = NoEditor
    /\ importModal = ClosedModal
    /\ chat = NoChat

NextEmbed ==
    \/ \E u \in Users : CreateNode(u)
    \/ \E id \in 1..MaxNodes, c \in EditContents : HandleContentChange(id, c)
    \/ \E id \in 1..MaxNodes : DeleteNode(id)
    \/ \E t \in 1..MaxEmbedCalls : EmbedVerify(t)
    \/ \E t \in 1..MaxEmbedCalls : EmbedFetched(t)
    \/ \E t \in 1..MaxEmbedCalls : EmbedFetchFailed(t)
    \/ \E t \in 1..MaxEmbedCalls : EmbedStore(t)
    \/ \E u \in Users, id \in {1}, v \in {"v1", "v2"} :
          UpdateEmbedding(u, id, v)

SpecEmbed == InitEmbed /\ [][NextEmbed]_vars

\* ---------------------------------------------------------- SpecMessages
\* the messages API called by both users on stored, removed and foreign ids
\* the conversation ids a caller may pass: the stored ones and a removed one
ConversationIds == Conversations \cup {"KX"}

InitMessages ==
    /\ canvasNodes = <<>>
    /\ canvasEdges = <<>>
    /\ nextNodeId = 1
    /\ nextEdgeId = 1
    /\ messages = PopulatedMessages
    /\ embedCalls = <<>>
    /\ fr = Idle
    /\ last = NoCall
    /\ panel = ClosedPanel
    /\ notes = <<>>
    /\ nextMessageId = Len(PopulatedMessages) + 1
    /\ menu = ClosedMenu
    /\ nav = NoNav
    /\ editor = NoEditor
    /\ importModal = ClosedModal
    /\ chat = NoChat

NextMessages ==
    \/ \E u \in Users, id \in 1..MaxMessages : GetByIdCall(u, id)
    \/ \E u \in Users, k \in ConversationIds : List(u, k)
    \/ \E u \in Users, k \in ConversationIds : Send(u, k, "c1")
    \/ \E u \in Users, id \in 1..MaxMessages : UpdateEmbedding(u, id, "v1")
    \/ \E u \in Users, id \in 1..MaxMessages : Remove(u, id)

SpecMessages == InitMessages /\ [][NextMessages]_vars

\* ---------------------------------------------------------- SpecNotes
\* note titles, with the two spellings of one title, and the untitled note
Titles == {"", "Alpha", "alpha", "Beta"}
\* the [[...]] texts a note's content may hold
LinkTexts == {"alpha"}

\* String.prototype.toLowerCase
Lower(t) ==
    CASE t = "Alpha" -> "alpha"
      [] t = "Beta"  -> "beta"
      [] OTHER       -> t

PopulatedNotes ==
    [1..PopNotes -> [title : Titles, links : SUBSET LinkTexts, owner : Users]]

\* the note's content holds a [[...]] reference to the title, whatever the case
References(note, title) == \E l \in note.links : Lower(l) = Lower(title)

\* a backlinks query that would keep the notes titled like the target
GetWikiLinkBacklinksUnguarded(caller, noteTitle) ==
    Collect({id \in DOMAIN notes :
                /\ notes[id].owner = caller
                /\ References(notes[id], noteTitle)})

\* canvas.getWikiLinkBacklinks({noteTitle}): the caller's notes that reference
\* the title, but not the note whose own title is the queried one
GetWikiLinkBacklinks(caller, noteTitle) ==
    Collect({id \in DOMAIN notes :
                /\ notes[id].owner = caller
                /\ References(notes[id], noteTitle)
                /\ notes[id].title # noteTitle})

\* backlinks?.filter((note) => note._id !== currentNoteId)
RECURSIVE FilterCurrent(_, _)
FilterCurrent(s, currentNoteId) ==
    IF s = <<>> THEN <<>>
    ELSE IF Head(s) = currentNoteId THEN FilterCurrent(Tail(s), currentNoteId)
    ELSE <<Head(s)>> \o FilterCurrent(Tail(s), currentNoteId)

\* BacklinksPanel({noteTitle, currentNoteId}): the query is skipped for an
\* empty title; what the panel lists
BacklinksPanel(caller, noteTitle, currentNoteId) ==
    [noteTitle |-> noteTitle, currentNoteId |-> currentNoteId,
     backlinks |-> IF noteTitle = "" THEN <<>>
                   ELSE FilterCurrent(GetWikiLinkBacklinks(caller, noteTitle),
                                      currentNoteId)]

\* the user opens a note; the editor renders the panel for its title
OpenNote(user, id) ==
    /\ id \in DOMAIN notes
    /\ panel' = BacklinksPanel(user, notes[id].title, id)
    /\ UNCHANGED <<canvasNodes, canvasEdges, nextNodeId, nextEdgeId, messages,
                   embedCalls, fr, last, notes,
                   nextMessageId, menu, nav, editor, importModal, chat>>

InitNotes ==
    /\ canvasNodes = <<>>
    /\ canvasEdges = <<>>
    /\ nextNodeId = 1
    /\ nextEdgeId = 1
    /\ messages = <<>>
    /\ embedCalls = <<>>
    /\ fr = Idle
    /\ last = NoCall
    /\ panel = ClosedPanel
    /\ notes \in PopulatedNotes
    /\ nextMessageId = 1
    /\ menu = ClosedMenu
    /\ nav = NoNav
    /\ editor = NoEditor
    /\ importModal = ClosedModal
    /\ chat = NoChat

NextNotes == \E u \in Users, id \in 1..PopNotes : OpenNote(u, id)

SpecNotes == InitNotes /\ [][NextNotes]_vars

\* --------------------------------------------------------- SpecSuggest
\* the [[ suggestion menu: lib/tiptap/wiki-link-suggestion.ts and
\* components/notes/WikiLinkList.tsx
Chars == {"a", "A", "b", " "}
LowerChar(c) == IF c = "A" THEN "a" ELSE c

\* String.prototype.toLowerCase, on a sequence of characters
ToLowerCase(s) == [i \in 1..Len(s) |-> LowerChar(s[i])]

\* String.prototype.trim
RECURSIVE TrimStart(_)
TrimStart(s) ==
    IF s # <<>> /\ Head(s) = " " THEN TrimStart(Tail(s)) ELSE s
RECURSIVE TrimEnd(_)
TrimEnd(s) ==
    IF s # <<>> /\ s[Len(s)] = " " THEN TrimEnd(SubSeq(s, 1, Len(s) - 1))
    ELSE s
Trim(s) == TrimEnd(TrimStart(s))

\* String.prototype.includes
Includes(s, q) ==
    \E k \in 0..(Len(s) - Len(q)) : SubSeq(s, k + 1, k + Len(q)) = q

\* Array.prototype.slice(0, 10)
SliceLimit == 10
Slice(list) == SubSeq(list, 1, Min(Len(list), SliceLimit))

\* titles.filter((item) => item.title.toLowerCase().includes(queryLower))
RECURSIVE FilterIncludes(_, _)
FilterIncludes(titles, queryLower) ==
    IF titles = <<>> THEN <<>>
    ELSE IF Includes(ToLowerCase(Head(titles).title), queryLower)
         THEN <<Head(titles)>> \o FilterIncludes(Tail(titles), queryLower)
         ELSE FilterIncludes(Tail(titles), queryLower)

\* a suggestion source that would return every match
ItemsUnsliced(titles, query) ==
    LET queryLower == Trim(ToLowerCase(query))
    IN IF queryLower = Empty THEN titles
       ELSE FilterIncludes(titles, queryLower)

\* WikiLinkSuggestion.items({query})
Items(titles, query) ==
    LET queryLower == Trim(ToLowerCase(query))
    IN IF queryLower = Empty THEN Slice(titles)
       ELSE Slice(FilterIncludes(titles, queryLower))

\* the note titles getNoteTitles() returns: lists of up to MaxTitles notes;
\* in list 1 the last note is titled "A" and the others "ab", in list 2 the
\* titles are "A" and "b" in turn, in list 3 they are "b a" and "Ab"
TitleAt(p, i, n) ==
    CASE p = 1 -> IF i = n THEN <<"A">> ELSE <<"a", "b">>
      [] p = 2 -> IF i % 2 = 1 THEN <<"A">> ELSE <<"b">>
      [] OTHER -> IF i % 2 = 1 THEN <<"b", " ", "a">> ELSE <<"A", "b">>

TitleLists ==
    {[i \in 1..n |-> [id |-> i, title |-> TitleAt(p, i, n)]] :
        n \in 0..MaxTitles, p \in 1..3}

\* what the user may have typed after [[
Queries == {Empty} \cup [1..1 -> Chars] \cup [1..2 -> Chars]

\* the suggestion plugin calls items({query}) and renders WikiLinkList with
\* the result; the list's effect sets the selected index to 0
Type(query) ==
    /\ menu.command = <<>>
    /\ menu' = [menu EXCEPT !.open = TRUE, !.query = query,
                            !.items = Items(menu.titles, query),
                            !.selectedIndex = 0, !.event = "query"]
    /\ UNCHANGED <<canvasNodes, canvasEdges, nextNodeId, nextEdgeId, messages,
                   embedCalls, fr, last, panel, notes, nextMessageId, nav, editor, importModal, chat>>

\* WikiLinkList: hasExactMatch, showCreateOption, totalItems
HasExactMatch(items, query) ==
    \E i \in 1..Len(items) :
        ToLowerCase(items[i].title) = ToLowerCase(query)
ShowCreateOption(items, query) ==
    Trim(query) # Empty /\ ~HasExactMatch(items, query)
TotalItems(items, query) ==
    Len(items) + (IF ShowCreateOption(items, query) THEN 1 ELSE 0)

menuFrame == <<canvasNodes, canvasEdges, nextNodeId, nextEdgeId, messages,
               embedCalls, fr, last, panel, notes, nextMessageId, nav, editor, importModal, chat>>

\* a (prev + 1) % totalItems that would stop at the last entry instead
NextIndexClamped(prev, totalItems) ==
    IF prev + 1 > totalItems THEN totalItems ELSE prev + 1

\* (prev + 1) % totalItems and (prev - 1 + totalItems) % totalItems
NextIndex(prev, totalItems) == (prev + 1) % totalItems
PrevIndex(prev, totalItems) == (prev - 1 + totalItems) % totalItems

ArrowDown ==
    /\ menu.open
    /\ TotalItems(menu.items, menu.query) # 0
    /\ menu' = [menu EXCEPT !.event = "ArrowDown", !.selectedIndex =
                   NextIndex(@, TotalItems(menu.items, menu.query))]
    /\ UNCHANGED menuFrame

ArrowUp ==
    /\ menu.open
    /\ TotalItems(menu.items, menu.query) # 0
    /\ menu' = [menu EXCEPT !.event = "ArrowUp", !.selectedIndex =
                   PrevIndex(@, TotalItems(menu.items, menu.query))]
    /\ UNCHANGED menuFrame

\* what selectItem(index) passes to command (indexes count from 0); <<>>
\* when it calls nothing
SelectItem(items, query, index) ==
    IF ShowCreateOption(items, query) /\ index = Len(items)
    THEN <<[id |-> 0, title |-> Trim(query)]>>
    ELSE IF index + 1 \in 1..Len(items) THEN <<items[index + 1]>>
    ELSE <<>>

\* Enter: selectItem(selectedIndex); the command inserts the link and the
\* menu goes
Enter ==
    /\ menu.open
    /\ TotalItems(menu.items, menu.query) # 0
    /\ menu' = [menu EXCEPT !.open = FALSE, !.event = "Enter",
                  !.command = SelectItem(menu.items, menu.query,
                                         menu.selectedIndex)]
    /\ UNCHANGED menuFrame

\* a click on an entry the menu shows: selectItem(index)
ClickEntry(index) ==
    /\ menu.open
    /\ index \in 0..(TotalItems(menu.items, menu.query) - 1)
    /\ menu' = [menu EXCEPT !.open = FALSE, !.event = "click",
                  !.command = SelectItem(menu.items, menu.query, index)]
    /\ UNCHANGED menuFrame

InitSuggest ==
    /\ canvasNodes = <<>>
    /\ canvasEdges = <<>>
    /\ nextNodeId = 1
    /\ nextEdgeId = 1
    /\ messages = <<>>
    /\ embedCalls = <<>>
    /\ fr = Idle
    /\ last = NoCall
    /\ panel = ClosedPanel
    /\ notes = <<>>
    /\ nextMessageId = 1
    /\ \E t \in TitleLists : menu = [ClosedMenu EXCEPT !.titles = t]
    /\ nav = NoNav
    /\ editor = NoEditor
    /\ importModal = ClosedModal
    /\ chat = NoChat

NextSuggest ==
    \/ \E q \in Queries : Type(q)
    \/ ArrowDown
    \/ ArrowUp
    \/ Enter
    \/ \E i \in 0..SliceLimit : ClickEntry(i)

SpecSuggest == InitSuggest /\ [][NextSuggest]_vars

\* ----------------------------------------------------------- SpecClick
\* wiki-link navigation: the click plugin of lib/tiptap/wiki-link.ts and the
\* handleLinkClick / findNoteByTitle of the notes view plan.  A note is a
\* canvasNodes row whose content is "# " and its heading text.
\* the data-title values of the links the open note shows
LinkTitles == {<<"A">>, <<"a">>, <<"a", " ">>, <<"b">>}

\* firstLine.replace(/^#\s*/, "").trim() of a note created as `# ${title}`
NoteTitle(content) == Trim(content)

\* the notes findNoteByTitle's predicate accepts
TitleMatches(title) ==
    {id \in DOMAIN canvasNodes :
        ToLowerCase(NoteTitle(canvasNodes[id].content)) = ToLowerCase(title)}

\* canvas.findNoteByTitle({title}): the first note in collection order whose
\* title is the argument, letter case apart; 0 is null
FindNoteByTitle(title) ==
    IF title = Empty \/ TitleMatches(title) = {} THEN 0
    ELSE CHOOSE id \in TitleMatches(title) :
            \A other \in TitleMatches(title) : id <= other

navFrame == <<canvasEdges, nextEdgeId, messages, embedCalls, fr, last, panel,
              notes, nextMessageId, menu, editor, importModal, chat>>

\* handleClick of the wikiLinkClick plugin: a click on a link whose
\* data-title is not empty calls onLinkClick(title)
ClickLink(title) ==
    /\ Len(nav.clicks) < MaxClicks
    /\ title # Empty
    /\ nav' = [nav EXCEPT !.clicks = Append(@,
                  [title |-> title, pc |-> "find", target |-> 0,
                   created |-> 0])]
    /\ UNCHANGED <<canvasNodes, nextNodeId>>
    /\ UNCHANGED navFrame

\* const existingNote = await findNoteByTitle({title})
Found(t) ==
    /\ t \in DOMAIN nav.clicks
    /\ nav.clicks[t].pc = "find"
    /\ LET existingNote == FindNoteByTitle(nav.clicks[t].title)
       IN nav' = IF existingNote # 0
                 THEN [nav EXCEPT !.clicks[t].pc = "navigate",
                                  !.clicks[t].target = existingNote]
                 ELSE [nav EXCEPT !.clicks[t].pc = "create"]
    /\ UNCHANGED <<canvasNodes, nextNodeId>>
    /\ UNCHANGED navFrame

\* const newId = await createNode({type: "note", content: `# ${title}\n\n`})
CreateNoteForLink(t) ==
    /\ t \in DOMAIN nav.clicks
    /\ nav.clicks[t].pc = "create"
    /\ canvasNodes' = [n \in DOMAIN canvasNodes \cup {nextNodeId} |->
                         IF n = nextNodeId
                         THEN [content |-> nav.clicks[t].title,
                               embedding |-> NoEmbedding, owner |-> "A"]
                         ELSE canvasNodes[n]]
    /\ nextNodeId' = nextNodeId + 1
    /\ nav' = [nav EXCEPT !.clicks[t].pc = "navigate",
                          !.clicks[t].target = nextNodeId,
                          !.clicks[t].created = nextNodeId]
    /\ UNCHANGED navFrame

\* onNavigate(id): the notes view selects the note
Navigate(t) ==
    /\ t \in DOMAIN nav.clicks
    /\ nav.clicks[t].pc = "navigate"
    /\ nav' = [nav EXCEPT !.clicks[t].pc = "done",
                          !.selected = nav.clicks[t].target]
    /\ UNCHANGED <<canvasNodes, nextNodeId>>
    /\ UNCHANGED navFrame

\* the notes stored when the view opens: none, or one titled "A"
InitClick ==
    /\ canvasNodes \in {<<>>, <<[content |-> <<"A">>, embedding |-> NoEmbedding,
                                owner |-> "A"]>>}
    /\ canvasEdges = <<>>
    /\ nextNodeId = Len(canvasNodes) + 1
    /\ nextEdgeId = 1
    /\ messages = <<>>
    /\ embedCalls = <<>>
    /\ fr = Idle
    /\ last = NoCall
    /\ panel = ClosedPanel
    /\ notes = <<>>
    /\ nextMessageId = 1
    /\ menu = ClosedMenu
    /\ nav = NoNav
    /\ editor = NoEditor
    /\ importModal = ClosedModal
    /\ chat = NoChat

NextClick ==
    \/ \E title \in LinkTitles : ClickLink(title)
    \/ \E t \in 1..MaxClicks : Found(t)
    \/ \E t \in 1..MaxClicks : CreateNoteForLink(t)
    \/ \E t \in 1..MaxClicks : Navigate(t)

SpecClick == InitClick /\ [][NextClick]_vars

\* ---------------------------------------------------------- SpecEditor
\* hooks/useNoteEditor.ts: the debounced save of the note editor.  The
\* browser's timer table holds the timeouts that are set and not yet fired
\* or cleared; saveTimeoutRef holds the id of the last one set.
\* setTimeout(..., 500)
SaveDelay == 500

\* clearTimeout(id): the timer is taken off the table; a timer that has fired
\* or was cleared already is not there and nothing happens
ClearTimeout(timers, id) == {t \in timers : t.id # id}

\* setTimeout(callback, delay) called at instant `now`
SetTimeout(timers, id, now, delay) ==
    timers \cup {[id |-> id, due |-> now + delay]}

editorFrame == <<canvasNodes, canvasEdges, nextNodeId, nextEdgeId, messages,
                 embedCalls, fr, last, panel, notes, nextMessageId, menu, nav,
                 importModal, chat>>

\* an onUpdate that would start its timer without clearing the pending one
OnUpdateKeepsTimer(html) ==
    /\ editor.mounted
    /\ editor.nextTimer <= MaxTimers
    /\ html # editor.html
    /\ editor' = [editor EXCEPT
                    !.html = html,
                    !.timers = SetTimeout(@, editor.nextTimer, editor.now,
                                          SaveDelay),
                    !.saveTimeoutRef = editor.nextTimer,
                    !.nextTimer = @ + 1,
                    !.lastUpdate = editor.now]
    /\ UNCHANGED editorFrame

\* onUpdate({editor}): the document changed to `html`; clearTimeout of the
\* pending timer if the ref holds one, then setTimeout(save, 500)
OnUpdate(html) ==
    /\ editor.mounted
    /\ editor.nextTimer <= MaxTimers
    /\ html # editor.html
    /\ editor' = [editor EXCEPT
                    !.html = html,
                    !.timers = SetTimeout(
                                  IF editor.saveTimeoutRef # 0
                                  THEN ClearTimeout(@, editor.saveTimeoutRef)
                                  ELSE @,
                                  editor.nextTimer, editor.now, SaveDelay),
                    !.saveTimeoutRef = editor.nextTimer,
                    !.nextTimer = @ + 1,
                    !.lastUpdate = editor.now]
    /\ UNCHANGED editorFrame

\* a timer that is due runs its callback, at its due time or later:
\* onUpdateRef.current?.(updatedEditor.getHTML()); the ref keeps its id
TimerFires(id) ==
    /\ \E t \in editor.timers : t.id = id /\ t.due <= editor.now
    /\ editor' = [editor EXCEPT
                    !.timers = ClearTimeout(@, id),
                    !.saves = Append(@, [content |-> editor.html,
                                         at |-> editor.now])]
    /\ UNCHANGED editorFrame

\* the cleanup of the unmount effect: clearTimeout of the ref's timer
Unmount ==
    /\ editor.mounted
    /\ editor' = [editor EXCEPT
                    !.mounted = FALSE,
                    !.timers = IF editor.saveTimeoutRef # 0
                               THEN ClearTimeout(@, editor.saveTimeoutRef)
                               ELSE @]
    /\ UNCHANGED editorFrame

\* time passes
Tick ==
    /\ editor.now < MaxTime
    /\ editor' = [editor EXCEPT !.now = @ + TickStep]
    /\ UNCHANGED editorFrame

InitEditor ==
    /\ canvasNodes = <<>>
    /\ canvasEdges = <<>>
    /\ nextNodeId = 1
    /\ nextEdgeId = 1
    /\ messages = <<>>
    /\ embedCalls = <<>>
    /\ fr = Idle
    /\ last = NoCall
    /\ panel = ClosedPanel
    /\ notes = <<>>
    /\ nextMessageId = 1
    /\ menu = ClosedMenu
    /\ nav = NoNav
    /\ editor \in {[NoEditor EXCEPT !.html = c] : c \in EditContents}
    /\ importModal = ClosedModal
    /\ chat = NoChat

NextEditor ==
    \/ \E c \in EditContents : OnUpdate(c)
    \/ \E id \in 1..MaxTimers : TimerFires(id)
    \/ Unmount
    \/ Tick

SpecEditor == InitEditor /\ [][NextEditor]_vars

\* ---------------------------------------------------------- SpecImport
\* components/import/ImportModal.handleImport: fetch the page, createNode,
\* await embedCanvasNode, then onSuccess and onClose; any throw lands in the
\* catch, which shows the error and reports nothing
importFrame == <<canvasEdges, nextEdgeId, messages, fr, last, panel, notes,
                 nextMessageId, menu, nav, editor, chat>>

\* the embedCanvasNode call of the import in flight has ended
Finished(t) == embedCalls[t].pc \in {"done", "notFound", "providerError",
                                     "patchError"}

\* the user presses Import: setIsLoading(true), setError(null), the request
\* to /api/import/... is sent
HandleImport(user, content) ==
    /\ importModal.isOpen
    /\ importModal.pc = "idle"
    /\ nextNodeId <= MaxImports
    /\ importModal' = [importModal EXCEPT
                         !.isLoading = TRUE, !.error = "", !.pc = "fetch",
                         !.user = user, !.content = content, !.nodeId = 0,
                         !.call = 0]
    /\ UNCHANGED <<canvasNodes, nextNodeId, embedCalls>>
    /\ UNCHANGED importFrame

\* !response.ok: throw new Error(data.error || "Import failed")
ImportFetchFailed ==
    /\ importModal.pc = "fetch"
    /\ importModal' = [importModal EXCEPT
                         !.isLoading = FALSE, !.error = "Import failed",
                         !.pc = "idle"]
    /\ UNCHANGED <<canvasNodes, nextNodeId, embedCalls>>
    /\ UNCHANGED importFrame

\* the page came back: nodeId = await createNode({type: "note", content}),
\* then embedNode({nodeId, content}) is sent and awaited
ImportFetched ==
    /\ importModal.pc = "fetch"
    /\ canvasNodes' = [n \in DOMAIN canvasNodes \cup {nextNodeId} |->
                         IF n = nextNodeId
                         THEN [content |-> importModal.content,
                               embedding |-> NoEmbedding,
                               owner |-> importModal.user]
                         ELSE canvasNodes[n]]
    /\ nextNodeId' = nextNodeId + 1
    /\ embedCalls' = Append(embedCalls,
                         NewCall("handleImport", importModal.user, nextNodeId,
                                 importModal.content))
    /\ importModal' = [importModal EXCEPT
                         !.pc = "embed", !.nodeId = nextNodeId,
                         !.call = Len(embedCalls) + 1,
                         !.created = @ \cup {nextNodeId}]
    /\ UNCHANGED importFrame

\* embedNode resolved: setUrl(""), onSuccess(nodeId), onClose()
ImportSucceeded ==
    /\ importModal.pc = "embed"
    /\ embedCalls[importModal.call].pc = "done"
    /\ importModal' = [importModal EXCEPT
                         !.isLoading = FALSE, !.pc = "idle", !.isOpen = FALSE,
                         !.succeeded = @ \cup {importModal.nodeId}]
    /\ UNCHANGED <<canvasNodes, nextNodeId, embedCalls>>
    /\ UNCHANGED importFrame

\* embedNode rejected: catch (err) setError(err.message); the modal stays
\* open and the note created stays stored
ImportEmbedFailed ==
    /\ importModal.pc = "embed"
    /\ Finished(importModal.call)
    /\ embedCalls[importModal.call].pc # "done"
    /\ importModal' = [importModal EXCEPT
                         !.isLoading = FALSE, !.pc = "idle",
                         !.error = "Failed to generate embedding"]
    /\ UNCHANGED <<canvasNodes, nextNodeId, embedCalls>>
    /\ UNCHANGED importFrame

\* the Import button of the sidebar opens the modal again
OpenModal ==
    /\ ~importModal.isOpen
    /\ importModal' = [importModal EXCEPT !.isOpen = TRUE, !.error = ""]
    /\ UNCHANGED <<canvasNodes, nextNodeId, embedCalls>>
    /\ UNCHANGED importFrame

InitImport ==
    /\ canvasNodes = <<>>
    /\ canvasEdges = <<>>
    /\ nextNodeId = 1
    /\ nextEdgeId = 1
    /\ messages = <<>>
    /\ embedCalls = <<>>
    /\ fr = Idle
    /\ last = NoCall
    /\ panel = ClosedPanel
    /\ notes = <<>>
    /\ nextMessageId = 1
    /\ menu = ClosedMenu
    /\ nav = NoNav
    /\ editor = NoEditor
    /\ importModal = ClosedModal
    /\ chat = NoChat

NextImport ==
    \/ \E u \in Users, c \in Contents : HandleImport(u, c)
    \/ ImportFetchFailed
    \/ ImportFetched
    \/ ImportSucceeded
    \/ ImportEmbedFailed
    \/ OpenModal
    \/ \E t \in 1..MaxImports : EmbedVerify(t)
    \/ \E t \in 1..MaxImports : EmbedFetched(t)
    \/ \E t \in 1..MaxImports : EmbedFetchFailed(t)
    \/ \E t \in 1..MaxImports : EmbedStore(t)

SpecImport == InitImport /\ [][NextImport]_vars

\* ---------------------------------------------------------- SpecScoped
\* convex/embeddings.ts: the public actions embedMessage and embedCanvasNode
\* called by both users on their own and on each other's rows
\* an embedMessage({messageId, content}) invocation that `caller` has just
\* sent from the call site `from`
NewMessageCall(from, caller, messageId, content) ==
    [from |-> from, caller |-> caller, messageId |-> messageId,
     content |-> content, pc |-> "verifyMessage", vector |-> NoEmbedding]

\* the invocation is one of embedMessage
IsMessageCall(call) == "messageId" \in DOMAIN call

embedMessageFrame == <<canvasNodes, canvasEdges, nextNodeId, nextEdgeId, fr,
                       last, panel, notes, nextMessageId, menu, nav, editor,
                       importModal, chat>>

\* a client calls the public action embedCanvasNode({nodeId, content})
EmbedCanvasNode(caller, nodeId, content) ==
    /\ Len(embedCalls) < MaxScopedCalls
    /\ embedCalls' = Append(embedCalls,
                         NewCall("embedCanvasNode", caller, nodeId, content))
    /\ UNCHANGED messages
    /\ UNCHANGED embedMessageFrame

\* a client calls the public action embedMessage({messageId, content})
EmbedMessage(caller, messageId, content) ==
    /\ Len(embedCalls) < MaxScopedCalls
    /\ embedCalls' = Append(embedCalls,
                         NewMessageCall("embedMessage", caller, messageId,
                                        content))
    /\ UNCHANGED messages
    /\ UNCHANGED embedMessageFrame

\* embedMessage, first await: runQuery(api.messages.getById); a null throws
\* "Message not found or unauthorized"
EmbedMessageVerify(t) ==
    /\ t \in DOMAIN embedCalls
    /\ embedCalls[t].pc = "verifyMessage"
    /\ embedCalls' = [embedCalls EXCEPT ![t].pc =
                        IF GetById(embedCalls[t].caller,
                                   embedCalls[t].messageId).id = 0
                        THEN "notFound" ELSE "fetchMessage"]
    /\ UNCHANGED messages
    /\ UNCHANGED embedMessageFrame

\* the provider answers: data.data[0].embedding
EmbedMessageFetched(t) ==
    /\ t \in DOMAIN embedCalls
    /\ embedCalls[t].pc = "fetchMessage"
    /\ embedCalls' = [embedCalls EXCEPT ![t].pc = "storeMessage",
                        ![t].vector = Embed(embedCalls[t].content)]
    /\ UNCHANGED messages
    /\ UNCHANGED embedMessageFrame

\* !response.ok: the action throws
EmbedMessageFetchFailed(t) ==
    /\ t \in DOMAIN embedCalls
    /\ embedCalls[t].pc = "fetchMessage"
    /\ embedCalls' = [embedCalls EXCEPT ![t].pc = "providerError"]
    /\ UNCHANGED messages
    /\ UNCHANGED embedMessageFrame

\* runMutation(internal.embeddings.updateMessageEmbedding, {id, embedding});
\* the patch throws on a message that is gone
EmbedMessageStore(t) ==
    /\ t \in DOMAIN embedCalls
    /\ embedCalls[t].pc = "storeMessage"
    /\ LET id == embedCalls[t].messageId
       IN IF id \notin DOMAIN messages
          THEN /\ embedCalls' = [embedCalls EXCEPT ![t].pc = "patchError"]
               /\ UNCHANGED messages
          ELSE /\ embedCalls' = [embedCalls EXCEPT ![t].pc = "done"]
               /\ messages' = PatchEmbedding(messages, id,
                                             embedCalls[t].vector)
    /\ UNCHANGED embedMessageFrame

InitScoped ==
    /\ canvasNodes = EmbeddedNodes
    /\ canvasEdges = <<>>
    /\ nextNodeId = PopNodes + 1
    /\ nextEdgeId = 1
    /\ messages = PopulatedMessages
    /\ embedCalls = <<>>
    /\ fr = Idle
    /\ last = NoCall
    /\ panel = ClosedPanel
    /\ notes = <<>>
    /\ nextMessageId = Len(PopulatedMessages) + 1
    /\ menu = ClosedMenu
    /\ nav = NoNav
    /\ editor = NoEditor
    /\ importModal = ClosedModal
    /\ chat = NoChat

NextScoped ==
    \/ \E u \in Users, id \in 1..(PopNodes + 1) :
          EmbedCanvasNode(u, id, "c3")
    \/ \E u \in Users, id \in 1..(Len(PopulatedMessages) + 1) :
          EmbedMessage(u, id, "c3")
    \/ \E t \in 1..MaxScopedCalls : EmbedVerify(t)
    \/ \E t \in 1..MaxScopedCalls : EmbedFetched(t)
    \/ \E t \in 1..MaxScopedCalls : EmbedFetchFailed(t)
    \/ \E t \in 1..MaxScopedCalls : EmbedStore(t)
    \/ \E t \in 1..MaxScopedCalls : EmbedMessageVerify(t)
    \/ \E t \in 1..MaxScopedCalls : EmbedMessageFetched(t)
    \/ \E t \in 1..MaxScopedCalls : EmbedMessageFetchFailed(t)
    \/ \E t \in 1..MaxScopedCalls : EmbedMessageStore(t)

SpecScoped == InitScoped /\ [][NextScoped]_vars

\* ------------------------------------------------------------ SpecChat
\* components/chat/ChatInterface.tsx: onSubmit saves the user's message,
\* requests its embedding and sends it to the AI; onFinish saves the
\* assistant's reply and requests its embedding.  A turn is one onSubmit
\* and what follows from it.
\* the texts of the replies, "" for a reply without text
Replies == {"", "c3"}

\* the state of a turn when onSubmit has read the input
NewTurn(text) ==
    [pc |-> "save", text |-> text, userMessageId |-> 0, requested |-> FALSE,
     finished |-> FALSE, reply |-> "", replyMessageId |-> 0]

chatFrame == <<canvasNodes, canvasEdges, nextNodeId, nextEdgeId, fr, last,
               panel, notes, menu, nav, editor, importModal>>

\* an onSubmit that would send the text to the AI first and save it after
OnSubmitSendsFirst(text) ==
    /\ chat.status = "ready"
    /\ Len(chat.turns) < MaxTurns
    /\ chat' = [chat EXCEPT
                  !.status = "submitted",
                  !.turns = Append(@, [NewTurn(text) EXCEPT
                                          !.requested = TRUE])]
    /\ UNCHANGED <<messages, nextMessageId, embedCalls>>
    /\ UNCHANGED chatFrame

\* onSubmit: if (!input.trim() || !isReady) return; currentInput = input;
\* the messages.send mutation is sent
OnSubmit(text) ==
    /\ chat.status = "ready"
    /\ Len(chat.turns) < MaxTurns
    /\ chat' = [chat EXCEPT !.turns = Append(@, NewTurn(text))]
    /\ UNCHANGED <<messages, nextMessageId, embedCalls>>
    /\ UNCHANGED chatFrame

\* await sendMessageToDb({conversationId, role: "user", content}) settles.
\* When it throws onSubmit rejects there; else embedMessage({messageId,
\* content: currentInput}) is sent without being awaited
UserMessageSaved(i) ==
    /\ i \in DOMAIN chat.turns
    /\ chat.turns[i].pc = "save"
    /\ LET r == SendResult(chat.user, chat.conversationId, chat.turns[i].text)
       IN /\ messages' = r.messages
          /\ IF r.ok
             THEN /\ nextMessageId' = nextMessageId + 1
                  /\ embedCalls' = Append(embedCalls,
                                      NewMessageCall("onSubmit", chat.user,
                                                     r.value[1],
                                                     chat.turns[i].text))
                  /\ chat' = [chat EXCEPT !.turns[i].pc = "send",
                                          !.turns[i].userMessageId = r.value[1]]
             ELSE /\ UNCHANGED <<nextMessageId, embedCalls>>
                  /\ chat' = [chat EXCEPT !.turns[i].pc = "rejected"]
    /\ UNCHANGED chatFrame

\* sendMessage({text: currentInput}): the request goes to /api/chat
SendToAI(i) ==
    /\ i \in DOMAIN chat.turns
    /\ chat.turns[i].pc = "send"
    /\ chat' = [chat EXCEPT !.status = "submitted",
                            !.turns[i].pc = "stream",
                            !.turns[i].requested = TRUE]
    /\ UNCHANGED <<messages, nextMessageId, embedCalls>>
    /\ UNCHANGED chatFrame

\* the response has ended with the text `reply`: useChat is ready again and
\* calls onFinish({message}), which sends the messages.send mutation
ResponseFinished(i, reply) ==
    /\ i \in DOMAIN chat.turns
    /\ chat.turns[i].pc = "stream"
    /\ chat' = [chat EXCEPT !.status = "ready",
                            !.turns[i].pc = "saveReply",
                            !.turns[i].finished = TRUE,
                            !.turns[i].reply = reply]
    /\ UNCHANGED <<messages, nextMessageId, embedCalls>>
    /\ UNCHANGED chatFrame

\* onFinish: await sendMessageToDb({conversationId, role: "assistant",
\* content}) settles; if (content) embedMessage({messageId, content})
AssistantMessageSaved(i) ==
    /\ i \in DOMAIN chat.turns
    /\ chat.turns[i].pc = "saveReply"
    /\ LET r == SendResult(chat.user, chat.conversationId, chat.turns[i].reply)
       IN /\ messages' = r.messages
          /\ IF r.ok
             THEN /\ nextMessageId' = nextMessageId + 1
                  /\ embedCalls' =
                        IF chat.turns[i].reply # ""
                        THEN Append(embedCalls,
                                 NewMessageCall("onFinish", chat.user,
                                                r.value[1],
                                                chat.turns[i].reply))
                        ELSE embedCalls
                  /\ chat' = [chat EXCEPT !.turns[i].pc = "done",
                                          !.turns[i].replyMessageId = r.value[1]]
             ELSE /\ UNCHANGED <<nextMessageId, embedCalls>>
                  /\ chat' = [chat EXCEPT !.turns[i].pc = "rejected"]
    /\ UNCHANGED chatFrame

\* the chat of user A on a conversation of theirs, or (a stale page) on one
\* that is not theirs any more
InitChat ==
    /\ canvasNodes = <<>>
    /\ canvasEdges = <<>>
    /\ nextNodeId = 1
    /\ nextEdgeId = 1
    /\ messages = <<>>
    /\ embedCalls = <<>>
    /\ fr = Idle
    /\ last = NoCall
    /\ panel = ClosedPanel
    /\ notes = <<>>
    /\ nextMessageId = 1
    /\ menu = ClosedMenu
    /\ nav = NoNav
    /\ editor = NoEditor
    /\ importModal = ClosedModal
    /\ chat \in {[NoChat EXCEPT !.conversationId = k] : k \in ConversationIds}

\* a turn sends at most two embedMessage calls
MaxChatCalls == 2 * MaxTurns

NextChat ==
    \/ \E c \in EditContents : OnSubmit(c)
    \/ \E i \in 1..MaxTurns : UserMessageSaved(i)
    \/ \E i \in 1..MaxTurns : SendToAI(i)
    \/ \E i \in 1..MaxTurns, r \in Replies : ResponseFinished(i, r)
    \/ \E i \in 1..MaxTurns : AssistantMessageSaved(i)
    \/ \E t \in 1..MaxChatCalls : EmbedMessageVerify(t)
    \/ \E t \in 1..MaxChatCalls : EmbedMessageFetched(t)
    \/ \E t \in 1..MaxChatCalls : EmbedMessageFetchFailed(t)
    \/ \E t \in 1..MaxChatCalls : EmbedMessageStore(t)

SpecChat == InitChat /\ [][NextChat]_vars

\* ================================================================ claims
\* ------------------------------------------------------ under SpecEmbed
\* the embedCanvasNode invocations for node n, and the last one sent
CallsFor(n) == {t \in DOMAIN embedCalls : embedCalls[t].nodeId = n}
LastCallFor(n) == CHOOSE t \in CallsFor(n) : \A u \in CallsFor(n) : u <= t

\* C5 (as claimed): when the refreshes of two edits of one node have both
\* stored their vector and the later edit is the node's last request, the
\* stored embedding is the one computed from the later edit's content.
C5_LastWriteWinsInRequestOrder ==
    \A n \in DOMAIN canvasNodes : \A i, j \in CallsFor(n) :
        ( /\ i < j
          /\ j = LastCallFor(n)
          /\ embedCalls[i].from = "handleContentChange"
          /\ embedCalls[j].from = "handleContentChange"
          /\ embedCalls[i].pc = "done"
          /\ embedCalls[j].pc = "done" )
        => canvasNodes[n].embedding = Embed(embedCalls[j].content)

\* C6 (as claimed): the last refresh request of a node carries the node's
\* current content, and once every refresh of the node has ended and the
\* last one succeeded, the stored embedding is the one computed from the
\* current content.
C6_EventuallyReembedded ==
    \A n \in DOMAIN canvasNodes :
        /\ CallsFor(n) # {}
        /\ embedCalls[LastCallFor(n)].content = canvasNodes[n].content
        /\ ( /\ \A t \in CallsFor(n) : Finished(t)
             /\ embedCalls[LastCallFor(n)].pc = "done" )
           => canvasNodes[n].embedding = Embed(canvasNodes[n].content)

\* C7: an embedding write leaves the written vector as the entity's one
\* stored vector: after the store step of a refresh the node holds the
\* refresh's vector, after a successful messages.updateEmbedding the message
\* holds the written vector, and the vector index lists the entity once,
\* scored against the new vector.
ListedOnceWith(table, id, vector) ==
    \A hits \in VectorSearch(table, vector, 0) :
        /\ Cardinality({i \in 1..Len(hits) : hits[i].id = id}) = 1
        /\ \A i \in 1..Len(hits) : hits[i].id = id => hits[i].score = 1000

C7_OverwriteLeavesLatestVector ==
    [][ /\ \A t \in DOMAIN embedCalls :
              (embedCalls[t].pc = "store" /\ embedCalls'[t].pc = "done")
              => /\ canvasNodes'[embedCalls[t].nodeId].embedding
                      = embedCalls[t].vector
                 /\ ListedOnceWith(canvasNodes', embedCalls[t].nodeId,
                                   embedCalls[t].vector)
        /\ (last' # last /\ last'.op = "updateEmbedding" /\ last'.ok)
              => /\ messages'[last'.id].embedding = last'.embedding
                 /\ ListedOnceWith(messages', last'.id, last'.embedding)
      ]_vars

\* a node written twice with different vectors, and a message overwritten
C7_SecondWriteHappened ==
    /\ \E i, j \in DOMAIN embedCalls :
          /\ i # j
          /\ embedCalls[i].nodeId = embedCalls[j].nodeId
          /\ embedCalls[i].pc = "done" /\ embedCalls[j].pc = "done"
          /\ embedCalls[i].vector # embedCalls[j].vector
          /\ embedCalls[i].nodeId \in DOMAIN canvasNodes
    /\ last.op = "updateEmbedding" /\ last.ok
    /\ last.prev \notin {NoEmbedding, last.embedding}

\* C10: the step in which a refresh's provider call fails changes no table:
\* the edited content stays, the stored embedding stays, and nothing but
\* that refresh's own state records the failure.
C10_FailedRefreshIsolated ==
    [][ \A t \in DOMAIN embedCalls :
          (embedCalls[t].pc = "fetch" /\ embedCalls'[t].pc = "providerError")
          => /\ canvasNodes' = canvasNodes
             /\ messages' = messages
             /\ canvasEdges' = canvasEdges
             /\ last' = last
             /\ \A u \in DOMAIN embedCalls : u # t => embedCalls'[u] = embedCalls[u]
      ]_vars

\* a refresh of an edit failed at the provider; the edit is stored and the
\* earlier embedding is still there
C10_RefreshFailedAfterEdit ==
    \E t \in DOMAIN embedCalls :
        /\ embedCalls[t].pc = "providerError"
        /\ embedCalls[t].nodeId \in DOMAIN canvasNodes
        /\ embedCalls[t].from = "handleContentChange"
        /\ canvasNodes[embedCalls[t].nodeId].content = embedCalls[t].content
        /\ canvasNodes[embedCalls[t].nodeId].embedding
              \notin {NoEmbedding, Embed(embedCalls[t].content)}

\* C11: a refresh whose node has been deleted ends in an error at its next
\* step (the lookup or the patch) and writes nothing, and no step brings a
\* deleted id back into the table: an embedding is only ever stored on a
\* node that exists.
C11_DeletedNeverEmbedded ==
    [][ /\ \A t \in DOMAIN embedCalls :
              ( /\ embedCalls[t].nodeId \notin DOMAIN canvasNodes
                /\ embedCalls[t].pc \in {"verify", "store"}
                /\ embedCalls'[t].pc # embedCalls[t].pc )
              => /\ canvasNodes' = canvasNodes
                 /\ embedCalls'[t].pc \in {"notFound", "patchError"}
        /\ \A id \in 1..(nextNodeId - 1) :
              id \notin DOMAIN canvasNodes => id \notin DOMAIN canvasNodes'
      ]_vars

\* a node was deleted after its refresh had fetched the vector, and the
\* refresh's patch failed
C11_DeletedWhileEmbedding ==
    \E t \in DOMAIN embedCalls :
        /\ embedCalls[t].pc = "patchError"
        /\ embedCalls[t].vector # NoEmbedding
        /\ embedCalls[t].nodeId \notin DOMAIN canvasNodes

\* --------------------------------------------------- under SpecMessages
\* ids of messages that were removed, and the messages and conversations
\* that exist but are not the caller's
RemovedMessages == (1..(nextMessageId - 1)) \ DOMAIN messages
ForeignMessages(u) == {id \in DOMAIN messages : ~OwnsMessage(u, id)}
RemovedConversations == ConversationIds \ Conversations
ForeignConversations(u) == {k \in Conversations : ConvUser(k) # u}

\* C13: for every caller, each message operation gives the same outcome
\* (value or error, and table left) for a removed target as for a target of
\* another user: getById null, list [], send, updateEmbedding and remove
\* the error 'Not found', and the table is left as it was; and every call
\* that throws leaves the table unchanged with the error 'Not found'.
C13_NotFoundIsUnauthorized ==
    /\ [](\A u \in Users :
            /\ \A x \in RemovedMessages, y \in ForeignMessages(u) :
                  /\ GetByIdResult(u, x) = GetByIdResult(u, y)
                  /\ GetByIdResult(u, y) = Returned(<<>>, messages)
                  /\ RemoveResult(u, x) = RemoveResult(u, y)
                  /\ RemoveResult(u, y) = Threw("Not found")
                  /\ \A v \in Vectors :
                        /\ UpdateEmbeddingResult(u, x, v)
                              = UpdateEmbeddingResult(u, y, v)
                        /\ UpdateEmbeddingResult(u, y, v) = Threw("Not found")
            /\ \A x \in RemovedConversations, y \in ForeignConversations(u) :
                  /\ ListResult(u, x) = ListResult(u, y)
                  /\ ListResult(u, y) = Returned(<<>>, messages)
                  /\ \A c \in Contents :
                        /\ SendResult(u, x, c) = SendResult(u, y, c)
                        /\ SendResult(u, y, c) = Threw("Not found"))
    /\ [][ (last' # last /\ ~last'.ok) =>
              /\ messages' = messages
              /\ nextMessageId' = nextMessageId
              /\ last'.error = "Not found" ]_vars

\* a message has been removed, another user's message is stored, and the
\* last call, a remove of a message that is not the caller's, was refused
C13_RefusedOnForeignTarget ==
    /\ RemovedMessages # {}
    /\ last.op = "remove"
    /\ ~last.ok
    /\ last.id \in DOMAIN messages
    /\ \E u \in Users : ForeignMessages(u) # {}

\* ----------------------------------------------------------- under Spec
\* C1 (as claimed): every entity a findRelated call has looked up for its
\* result, message or node, is owned by the caller.
C1_OwnerIsolation ==
    /\ \A i \in 1..Len(fr.messages) :
          fr.messages[i].id # 0 => fr.messages[i].owner = fr.caller
    /\ \A i \in 1..Len(fr.nodes) :
          fr.nodes[i].id # 0 => fr.nodes[i].owner = fr.caller

\* the list is the hits' list with some hits left out: same order, and each
\* entry has the score of the hit with its id
RECURSIVE IsSubsequence(_, _)
IsSubsequence(res, hits) ==
    IF res = <<>> THEN TRUE
    ELSE IF hits = <<>> THEN FALSE
    ELSE IF Head(res).id = Head(hits).id /\ Head(res).score = Head(hits).score
         THEN IsSubsequence(Tail(res), Tail(hits))
         ELSE IsSubsequence(res, Tail(hits))

NonIncreasing(res) ==
    \A i, j \in 1..Len(res) : i < j => res[i].score >= res[j].score

\* C9: each list a findRelated call returns is in non-increasing score order
\* and is the hits' list, scores included, without the dropped hits.
C9_ScoreMonotonicity ==
    fr.pc = "done" =>
        /\ NonIncreasing(fr.messages)
        /\ NonIncreasing(fr.nodes)
        /\ IsSubsequence(fr.messages, fr.messageResults)
        /\ IsSubsequence(fr.nodes, fr.nodeResults)

\* a returned list of two entries with different scores whose hit in between
\* was dropped by the lookup
C9_DroppedBetween ==
    /\ fr.pc = "done"
    /\ Len(fr.messageResults) = 3
    /\ Len(fr.messages) = 2
    /\ fr.messages[1].id = fr.messageResults[1].id
    /\ fr.messages[2].id = fr.messageResults[3].id
    /\ fr.messages[1].score > fr.messages[2].score

\* the two maps of findRelated over given hits, evaluated in this state
MessagesOf(caller, hits) ==
    FilterBoolean([i \in 1..Len(hits) |-> MessageResult(caller, hits[i])])
NodesOf(caller, hits) ==
    FilterBoolean([i \in 1..Len(hits) |-> NodeResult(caller, hits[i])])

\* no hit of the call in flight has been deleted since the call began
NoHitDeleted ==
    /\ \A i \in 1..Len(fr.messageResults) :
          fr.messageResults[i].id \in DOMAIN messages
    /\ \A i \in 1..Len(fr.nodeResults) :
          fr.nodeResults[i].id \in DOMAIN canvasNodes

C17_ProviderCalledOnce ==
    /\ [](/\ fr.pc \in {"idle", "fetch"} => fr.fetches = 0
          /\ fr.pc \notin {"idle", "fetch"} => fr.fetches = 1
          /\ fr.pc = "failed" =>
                /\ fr.error \in (ProviderErrors \ {""})
                                 \cup {"Failed to generate embedding"}
                /\ fr.vector = NoEmbedding
                /\ fr.messageResults = <<>> /\ fr.nodeResults = <<>>
                /\ fr.messages = <<>> /\ fr.nodes = <<>>)
    /\ [][ fr.pc = "failed" => fr'.pc \in {"failed", "idle"} ]_vars

\* a call failed at the provider with the provider's message
C17_ProviderFailed ==
    /\ fr.pc = "failed"
    /\ fr.fetches = 1
    /\ fr.error = "Rate limit reached"

\* the stored nodes that have no embedding
Unembedded == {n \in DOMAIN canvasNodes : canvasNodes[n].embedding = NoEmbedding}

ClaimedLimit == IF fr.limit = 0 THEN 5 ELSE fr.limit
Ids(list) == {list[i].id : i \in 1..Len(list)}

\* the hits are `limit` best-scored rows of the table (all rows if fewer)
IsTopLimit(hits, table) ==
    /\ Len(hits) = Min(ClaimedLimit, Cardinality(Indexed(table)))
    /\ \A h \in Ids(hits), e \in Indexed(table) \ Ids(hits) :
          Sim(Embed(fr.query), table[h].embedding)
            >= Sim(Embed(fr.query), table[e].embedding)

\* C16: each list a findRelated call returns has at most `limit` entries (5
\* when the limit is omitted), its entries are among the top-`limit` hits of
\* its own collection, and a hit the lookup dropped is not replaced: the
\* list is exactly the hits that passed the lookup.
C16_AtMostLimitFromTopHits ==
    fr.pc = "done" =>
        /\ Len(fr.messages) <= ClaimedLimit
        /\ Len(fr.nodes) <= ClaimedLimit
        /\ IsTopLimit(fr.messageResults, messages)
        /\ IsTopLimit(fr.nodeResults, canvasNodes)
        /\ Ids(fr.messages)
             = {h \in Ids(fr.messageResults) : OwnsMessage(fr.caller, h)}
        /\ Ids(fr.nodes) \subseteq Ids(fr.nodeResults)

\* a call with the limit omitted, over more than 5 rows, returned no message
\* to a caller who owns a stored, embedded message
C16_ShorterThanLimit ==
    /\ fr.pc = "done"
    /\ fr.limit = 0
    /\ Len(fr.messageResults) = 5
    /\ Len(fr.messages) < 5
    /\ \E m \in Indexed(messages) :
          OwnsMessage(fr.caller, m) /\ m \notin Ids(fr.messages)

\* ----------------------------------------------------- under SpecCanvas
\* the step is one iteration of handleFindRelated's loop
IsMaterializeStep == fr.pc = "done" /\ fr.source # 0 /\ fr'.i = fr.i + 1
NewEdges == DOMAIN canvasEdges' \ DOMAIN canvasEdges

\* C2: an iteration of the materializer's loop creates no edge from the
\* source node to itself: on a related node with the source's id it creates
\* nothing, on any other related node (whatever its content) it creates the
\* edge source -> node.
C2_SelfExclusion ==
    [][ IsMaterializeStep =>
          /\ \A e \in NewEdges :
                ~(canvasEdges'[e].source = fr.source
                    /\ canvasEdges'[e].target = fr.source)
          /\ fr.nodes[fr.i].id = fr.source => NewEdges = {}
          /\ fr.nodes[fr.i].id # fr.source =>
                \E e \in NewEdges :
                    /\ canvasEdges'[e].source = fr.source
                    /\ canvasEdges'[e].target = fr.nodes[fr.i].id
      ]_vars

\* the loop has passed the source's own entry and has linked a node that
\* holds the same content as the source
C2_SelfSkippedTwinLinked ==
    /\ fr.pc = "done" /\ fr.source # 0
    /\ \E k \in 1..Len(fr.nodes) : k < fr.i /\ fr.nodes[k].id = fr.source
    /\ \E e \in DOMAIN canvasEdges :
          /\ canvasEdges[e].label # NoLabel
          /\ canvasEdges[e].source = fr.source
          /\ canvasEdges[e].target # fr.source
          /\ canvasEdges[e].target \in DOMAIN canvasNodes
          /\ fr.source \in DOMAIN canvasNodes
          /\ canvasNodes[canvasEdges[e].target].content
                = canvasNodes[fr.source].content

\* C3 (as claimed): a deleteNode call on X leaves neither X nor any edge
\* that has X as its source or its target.
C3_CascadeDelete ==
    [][ (last' # last /\ last'.op = "deleteNode") =>
          /\ last'.id \notin DOMAIN canvasNodes'
          /\ \A e \in DOMAIN canvasEdges' :
                /\ canvasEdges'[e].source # last'.id
                /\ canvasEdges'[e].target # last'.id
      ]_vars

\* the nodes that existed and were deleted (ids are never reused)
Deleted == (1..(nextNodeId - 1)) \ DOMAIN canvasNodes

\* C4: getBacklinks of no node ever lists a deleted node.
C4_DeletedNeverBacklinked ==
    \A a \in Deleted : \A b \in 1..(nextNodeId - 1) :
        \A i \in 1..Len(GetBacklinks(b)) : GetBacklinks(b)[i].id # a

\* an edge whose source was deleted before the edge was inserted points at
\* a node that exists
C4_EdgeFromDeletedSource ==
    \E e \in DOMAIN canvasEdges :
        /\ canvasEdges[e].source \in Deleted
        /\ canvasEdges[e].target \in DOMAIN canvasNodes

\* the related nodes a run links: the entries of the nodes result but the
\* source's own
RECURSIVE Others(_, _)
Others(nodes, source) ==
    IF nodes = <<>> THEN <<>>
    ELSE IF Head(nodes).id = source THEN Others(Tail(nodes), source)
    ELSE <<Head(nodes)>> \o Others(Tail(nodes), source)

\* p is the score (in thousandths) as a percentage rounded to the nearest
\* whole number, halves up
IsRoundedPercent(p, score) == 10 * p - 5 <= score /\ score < 10 * p + 5

LoopCompleted == fr.pc = "done" /\ fr.source # 0 /\ fr.i > Len(fr.nodes)

\* C19: when the loop of handleFindRelated has run to its end, its
\* createEdge calls are, in order, one per entry of the nodes result other
\* than the source, from the source to that entry, labelled with the
\* entry's score as a rounded percentage; there is no other call, whatever
\* the messages result holds; and every row they inserted that is still
\* stored is the edge that was asked for.
C19_OneEdgePerRelatedNode ==
    LoopCompleted =>
        LET others == Others(fr.nodes, fr.source)
        IN /\ Len(fr.made) = Len(others)
           /\ \A k \in 1..Len(fr.made) :
                 /\ fr.made[k].source = fr.source
                 /\ fr.made[k].target = others[k].id
                 /\ Len(fr.made[k].label) = 1
                 /\ IsRoundedPercent(fr.made[k].label[1], others[k].score)
                 /\ \A j \in 1..Len(fr.made) :
                       j # k => fr.made[j].edge # fr.made[k].edge
                 /\ fr.made[k].edge \in DOMAIN canvasEdges =>
                       canvasEdges[fr.made[k].edge]
                         = [source |-> fr.source, target |-> others[k].id,
                            label |-> fr.made[k].label]

\* a run has completed with two edges made, one of them for a score that
\* rounds up, its own node skipped and a message in the messages result
C19_TwoLinkedOneRoundedUp ==
    /\ LoopCompleted
    /\ Len(fr.made) = 2
    /\ \E k \in 1..2 : fr.made[k].label = <<88>>
    /\ \E i \in 1..Len(fr.nodes) : fr.nodes[i].id = fr.source
    /\ fr.messages # <<>>

\* the run's createEdge call has just failed
CreateEdgeFailed == fr.pc = "failed" /\ fr.source # 0 /\ fr.vector # NoEmbedding

\* C20: the step in which a createEdge call of the loop fails removes no
\* edge and forgets none the run has made; the edges made before it are
\* the ones for the related nodes that come before the failed one in the
\* result; after it the run makes no edge and just ends, the error caught;
\* and no step inserts more than one edge.
C20_PartialFailureKeepsEarlierEdges ==
    /\ [][ /\ (fr.pc = "done" /\ fr'.pc = "failed") =>
                /\ canvasEdges' = canvasEdges
                /\ fr'.made = fr.made
                /\ fr'.i = fr.i
           /\ (fr.pc = "failed" /\ fr' # fr) =>
                /\ fr' = Idle
                /\ canvasEdges' = canvasEdges
                /\ last' = last
           /\ Cardinality(DOMAIN canvasEdges' \ DOMAIN canvasEdges) <= 1
         ]_vars
    /\ [](CreateEdgeFailed =>
            LET earlier == Others(SubSeq(fr.nodes, 1, fr.i - 1), fr.source)
            IN /\ fr.i <= Len(fr.nodes)
               /\ fr.nodes[fr.i].id # fr.source
               /\ Len(fr.made) = Len(earlier)
               /\ \A k \in 1..Len(earlier) :
                     fr.made[k].target = earlier[k].id)

\* the second createEdge of a run failed and the edge of the first is stored
C20_SecondEdgeFailed ==
    /\ CreateEdgeFailed
    /\ Len(fr.made) = 1
    /\ fr.made[1].edge \in DOMAIN canvasEdges
    /\ canvasEdges[fr.made[1].edge].source = fr.source

\* C14 (as claimed): what getBacklinks returns to a user who queries a
\* node of their own holds only nodes of that user.
C14_BacklinksOwnerFiltered ==
    \A u \in Users : \A n \in DOMAIN canvasNodes :
        canvasNodes[n].owner = u =>
            \A i \in 1..Len(GetBacklinks(n)) :
                canvasNodes[GetBacklinks(n)[i].id].owner = u

\* the edges into n whose source node is stored
LiveIncoming(n) ==
    {e \in DOMAIN canvasEdges : /\ canvasEdges[e].target = n
                                /\ canvasEdges[e].source \in DOMAIN canvasNodes}
Backlink(e) == [id |-> canvasEdges[e].source, edgeLabel |-> canvasEdges[e].label]

\* C15: getBacklinks(N) has one entry per edge into N whose source is
\* stored, each entry being that edge's source with that edge's label, and
\* nothing else: no source of an edge into another node, no deleted source.
C15_BacklinksExact ==
    \A n \in 1..PopNodes :
        LET bl == GetBacklinks(n)
        IN /\ Len(bl) = Cardinality(LiveIncoming(n))
           /\ \A i \in 1..Len(bl) : \E e \in LiveIncoming(n) : bl[i] = Backlink(e)
           /\ \A e \in LiveIncoming(n) :
                 Cardinality({i \in 1..Len(bl) : bl[i] = Backlink(e)})
                   = Cardinality({f \in LiveIncoming(n) : Backlink(f) = Backlink(e)})

\* a node has a labelled backlink while another edge points elsewhere
C15_LabelledBacklinkAmongOthers ==
    \E n \in DOMAIN canvasNodes :
        /\ Len(GetBacklinks(n)) = 1
        /\ GetBacklinks(n)[1].edgeLabel # NoLabel
        /\ \E e \in DOMAIN canvasEdges :
              /\ canvasEdges[e].target # n
              /\ canvasEdges[e].source = GetBacklinks(n)[1].id

\* ---------------------------------------------------- under SpecSuggest
\* title t contains q, letter case apart
ContainsIgnoringCase(t, q) ==
    \E k \in 0..(Len(t) - Len(q)) :
        \A j \in 1..Len(q) : LowerChar(t[k + j]) = LowerChar(q[j])

\* the positions in the title list of the notes the typed query matches
Matching ==
    {i \in 1..Len(menu.titles) :
        ContainsIgnoringCase(menu.titles[i].title, Trim(menu.query))}

\* C21: the suggestions shown for the typed query are the first 10 notes of
\* the title list whose title contains the trimmed query, letter case
\* apart, in the order of the list; for an empty (or blank) query they are
\* the first 10 notes of the list.
C21_SuggestionsAreFirstTenMatches ==
    menu.open =>
        /\ Len(menu.items) = Min(10, Cardinality(Matching))
        /\ \A k \in 1..Len(menu.items) :
              \E i \in Matching :
                  /\ Cardinality({m \in Matching : m <= i}) = k
                  /\ menu.items[k] = menu.titles[i]
        /\ Trim(menu.query) = Empty =>
              menu.items = SubSeq(menu.titles, 1, Min(10, Len(menu.titles)))

\* a query in capitals with a blank around it matches more than 10 notes,
\* and some note before the last shown one does not match
C21_CappedCaseAndBlank ==
    /\ menu.open
    /\ Cardinality(Matching) > 10
    /\ Len(menu.items) = 10
    /\ menu.query = <<" ", "A">>

\* C22 (as claimed): whenever some note of the title list has a title equal
\* to the typed query, letter case apart, the menu does not offer its
\* 'create new' entry.
C22_CreateOnlyWithoutExactTitle ==
    (menu.open /\ ShowCreateOption(menu.items, menu.query)) =>
        ~\E i \in 1..Len(menu.titles) :
            ToLowerCase(menu.titles[i].title) = ToLowerCase(menu.query)

\* ------------------------------------------------------ under SpecClick
\* C23 (as claimed): among the clicks on links with one title, at most one
\* has created a note, and none has when a note with that title, letter
\* case apart, existed already; a click that has ended has selected a note
\* with the clicked title.
C23_ClickNavigatesCreatingAtMostOnce ==
    \A t \in DOMAIN nav.clicks :
        /\ \A u \in DOMAIN nav.clicks :
              ( /\ u # t
                /\ nav.clicks[u].title = nav.clicks[t].title
                /\ nav.clicks[t].created # 0 )
              => nav.clicks[u].created = 0
        /\ nav.clicks[t].pc = "done" =>
              /\ nav.clicks[t].target \in DOMAIN canvasNodes
              /\ ToLowerCase(NoteTitle(canvasNodes[nav.clicks[t].target].content))
                   = ToLowerCase(Trim(nav.clicks[t].title))

C24_SavesDebounced ==
    /\ [](Cardinality(editor.timers) <= 1)
    /\ [][ /\ editor'.nextTimer # editor.nextTimer
              => editor'.timers = {[id |-> editor.nextTimer,
                                    due |-> editor.now + SaveDelay]}
           /\ Len(editor'.saves) > Len(editor.saves)
              => /\ editor.mounted
                 /\ editor.now - editor.lastUpdate >= SaveDelay
                 /\ editor'.saves = Append(editor.saves,
                                       [content |-> editor.html,
                                        at |-> editor.now]) ]_vars

\* a save was made although an earlier timer had been cancelled by a later
\* update, and the editor was then unmounted with another timer pending,
\* which never fired
C24_SavedAfterCancelAndUnmounted ==
    /\ Len(editor.saves) = 1
    /\ editor.nextTimer = 4
    /\ ~editor.mounted
    /\ editor.timers = {}
    /\ editor.now = MaxTime


\* ------------------------------------------------------ under SpecImport
\* C25 (as claimed): once the import flow has finished, every note created
\* through the import modal has a stored embedding, and every import
\* reported as a success has its note stored with its embedding.
C25_ImportedContentHasEmbeddings ==
    /\ importModal.pc = "idle" =>
          \A n \in importModal.created :
             /\ n \in DOMAIN canvasNodes
             /\ canvasNodes[n].embedding = Embed(canvasNodes[n].content)
    /\ \A n \in importModal.succeeded :
          /\ n \in DOMAIN canvasNodes
          /\ canvasNodes[n].embedding = Embed(canvasNodes[n].content)


\* ------------------------------------------------------ under SpecScoped
\* the user a stored row belongs to
MessageOwner(id) == ConvUser(messages[id].conversationId)
NodeOwner(id) == canvasNodes[id].owner

\* C26 (as claimed): embedMessage and embedCanvasNode store an embedding
\* only on a row of the calling user; a call that names another user's
\* message or node stops at its ownership check, before the provider is
\* called, and that row keeps the embedding it had.
C26_EmbeddingWritesOwnerScoped ==
    /\ \A t \in DOMAIN embedCalls :
          LET call == embedCalls[t]
          IN IF IsMessageCall(call)
             THEN ( /\ call.messageId \in DOMAIN messages
                    /\ MessageOwner(call.messageId) # call.caller )
                  => call.pc \in {"verifyMessage", "notFound"}
             ELSE ( /\ call.nodeId \in DOMAIN canvasNodes
                    /\ NodeOwner(call.nodeId) # call.caller )
                  => call.pc \in {"verify", "notFound"}
    /\ \A id \in DOMAIN messages :
          messages[id].embedding # PopulatedMessages[id].embedding
          => \E t \in DOMAIN embedCalls :
                /\ IsMessageCall(embedCalls[t])
                /\ embedCalls[t].messageId = id
                /\ embedCalls[t].caller = MessageOwner(id)
    /\ \A id \in DOMAIN canvasNodes :
          canvasNodes[id].embedding # EmbeddedNodes[id].embedding
          => \E t \in DOMAIN embedCalls :
                /\ ~IsMessageCall(embedCalls[t])
                /\ embedCalls[t].nodeId = id
                /\ embedCalls[t].caller = NodeOwner(id)


\* ------------------------------------------- under SpecCanvas (C27, C28)
\* C27 (as claimed): the source and the target of every stored edge are
\* existing canvas nodes, in every reachable state.
C27_EdgeReferentialIntegrity ==
    \A e \in DOMAIN canvasEdges :
        /\ canvasEdges[e].source \in DOMAIN canvasNodes
        /\ canvasEdges[e].target \in DOMAIN canvasNodes

\* C28 (as claimed): deleteNode succeeds on every existing node whatever
\* edges it has: the list of edges it deletes names no edge twice, and the
\* call returns having removed the node.
C28_DeleteNodeSucceeds ==
    /\ [](\A id \in DOMAIN canvasNodes :
            \A i, j \in 1..Len(ConnectedEdges(id)) :
               i # j => ConnectedEdges(id)[i] # ConnectedEdges(id)[j])
    /\ [][ (last' # last /\ last'.op = "deleteNode") =>
             /\ last'.ok
             /\ last'.id \notin DOMAIN canvasNodes' ]_vars


\* ----------------------------------------------- under SpecSuggest (C30)
\* the entries the open list shows: the items and the create entry
Shown == TotalItems(menu.items, menu.query)

ChatCalls == {t \in DOMAIN embedCalls : IsMessageCall(embedCalls[t])}

\* C29: in the chat flow a user message is stored before the request for it
\* is sent to the AI, the assistant's reply is stored only after its
\* response has finished, and an embedding is requested for a message only
\* after the message has been stored, with the stored message's id and
\* content.
C29_PersistBeforeSendAndEmbed ==
    /\ \A i \in DOMAIN chat.turns :
          LET turn == chat.turns[i]
          IN /\ turn.requested =>
                   /\ turn.userMessageId \in DOMAIN messages
                   /\ messages[turn.userMessageId].content = turn.text
                   /\ messages[turn.userMessageId].conversationId
                         = chat.conversationId
             /\ turn.replyMessageId # 0 =>
                   /\ turn.finished
                   /\ turn.replyMessageId \in DOMAIN messages
                   /\ messages[turn.replyMessageId].content = turn.reply
    /\ \A t \in ChatCalls :
          /\ embedCalls[t].messageId \in DOMAIN messages
          /\ messages[embedCalls[t].messageId].content = embedCalls[t].content
          /\ \E i \in DOMAIN chat.turns :
                embedCalls[t].messageId \in {chat.turns[i].userMessageId,
                                             chat.turns[i].replyMessageId}

\* a turn has run to its end: the user message and the reply are stored,
\* the request was sent between the two, and both embeddings were requested
C29_TurnDone ==
    \E i \in DOMAIN chat.turns :
        /\ chat.turns[i].pc = "done"
        /\ chat.turns[i].requested
        /\ chat.turns[i].userMessageId < chat.turns[i].replyMessageId
        /\ \E t, u \in ChatCalls :
              /\ embedCalls[t].messageId = chat.turns[i].userMessageId
              /\ embedCalls[u].messageId = chat.turns[i].replyMessageId
              /\ embedCalls[u].pc = "done"

====
